---- MODULE Spec2Model ----
(***************************************************************************)
(* Model of the k8s-io benchmark tool.                                     *)
(*                                                                         *)
(*  - Spec        : benchmark.Manager (phase state machine) driving the    *)
(*                  cluster client's apply / poll calls.                   *)
(*  - SpecScan    : fio.ParseFIOResults line scanner followed by           *)
(*                  CaptureFIOResultsWithOptions (extract, table, CSV).    *)
(*  - SpecSummary : fio.ExtractResultSummaries, PrintResultsTable and      *)
(*                  ExportResultsToCSV over decoded payloads.              *)
(***************************************************************************)
EXTENDS Integers, Sequences, FiniteSets, TLC

VARIABLES
    \* ---- benchmark.Manager ----
    cfg,          \* Manager.config (WorkloadArgs: Prefill, Servers, StorageClass)
    state,        \* Manager.state
    podDetails,   \* Manager.podDetails: pod IP -> node name
    pc,           \* position of the (single) caller inside RunBenchmark
    idx,          \* index of the next manifest in deployInfrastructure
    tick,         \* number of poll intervals elapsed in the current wait
    ret,          \* what the last call returned ("running": it has not returned yet)
    calls,        \* number of RunBenchmark invocations so far
    \* ---- history of the current RunBenchmark invocation ----
    entryState,   \* Manager.state when the invocation started
    trail,        \* phases assigned to Manager.state, in order
    applied,      \* manifests applied successfully, in order
    maxRunning,   \* largest number of Running pods a readiness check listed (-1: none)
    collected,    \* number of endpoints GetPodIPs returned (-1: not collected)
    \* ---- waits of the cluster client ----
    asleep,       \* wait.PollImmediate is between two checks
    cancelled,    \* the context passed to RunBenchmark is cancelled
    waitLog,      \* record of the wait in progress, or of the last one
    \* ---- the command line tool and the cluster ----
    cluster,      \* objects present in the cluster
    verbs,        \* API calls issued by the process, as <<verb, kind>>
    cleaned,      \* record of the Cleanup invocations in a row that succeeded
    flags,        \* main: the flags cleanup and dryRun
    mainPc,       \* position of the process inside main ("exit": no process)
    step,         \* index of the next step of RunBenchmark
    exit,         \* how the last process ended
    classified,   \* isTransientError: the errors classified so far, with the answers
    \* ---- fio result pipeline ----
    line,         \* ParseFIOResults: the line read last, as it stands in the log
    pos,          \* ParseFIOResults: number of lines read so far, plus one
    testID,       \* ParseFIOResults: testID
    inJSONBlock,  \* ParseFIOResults: inJSONBlock
    currentJSON,  \* ParseFIOResults: currentJSON (lines written so far)
    results,      \* []*FIOResult
    blockIDs,     \* test identifier of the start line of each decoded block
    callerID,     \* testID argument of ExtractResultSummaries
    summaries,    \* []ResultSummary
    stdout,       \* lines printed by the table / capture code
    csv,          \* outcome of ExportResultsToCSV
    stage,        \* position inside the capture pipeline
    \* ---- scanning one log text more than once ----
    logText,      \* the logOutput argument, as a sequence of lines
    scanNo,       \* number of scans of logText started so far
    firstSummaries \* the summaries the first scan of logText gave

mgrVars  == <<cfg, state, podDetails, pc, idx, tick, ret, calls>>
histVars == <<entryState, trail, applied, maxRunning, collected>>
fioVars  == <<line, pos, testID, inJSONBlock, currentJSON, results, blockIDs,
              callerID, summaries, stdout, csv, stage>>
rescanVars == <<logText, scanNo, firstSummaries>>
waitVars    == <<asleep, cancelled, waitLog>>
clusterVars == <<cluster, verbs, cleaned, flags, mainPc, step, exit, classified>>
vars     == <<mgrVars, histVars, waitVars, clusterVars, fioVars, rescanVars>>

----------------------------------------------------------------------------
(* Bounds *)

MaxServers == 2     \* WorkloadArgs.Servers ranges over 1..MaxServers
MaxPods    == 2     \* a pod listing holds at most MaxPods pods
MaxTicks   == 2     \* poll intervals that fit into JobTimeout
MaxCalls   == 2     \* RunBenchmark invocations on one Manager

----------------------------------------------------------------------------
(* benchmark.State *)

States == {"Building", "StartingServers", "StartingClient", "Prefilling",
           "StartBenchmark", "Running", "Completed", "Failed"}

\* position of a phase in the declared order (Failed last)
Rank(s) ==
    CASE s = "Building"        -> 1
      [] s = "StartingServers" -> 2
      [] s = "StartingClient"  -> 3
      [] s = "Prefilling"      -> 4
      [] s = "StartBenchmark"  -> 5
      [] s = "Running"         -> 6
      [] s = "Completed"       -> 7
      [] s = "Failed"          -> 8

----------------------------------------------------------------------------
(* Cluster collaborator: what one call can answer *)

NoErr == [msg |-> "", net |-> FALSE]

\* errors the API client can return: a message and whether the value is a net.Error
ApiErrors == { [msg |-> "connection refused", net |-> FALSE],
               [msg |-> "i/o timeout",        net |-> TRUE],
               [msg |-> "forbidden",          net |-> FALSE],
               [msg |-> "not found",          net |-> FALSE] }

TransientMsgs == {"client connection lost", "connection reset by peer", "timeout",
                  "temporary failure", "network is unreachable", "no route to host",
                  "connection refused", "i/o timeout"}

\* messages of errors, beside the ones above: with a symptom inside a longer
\* text, with capital letters, and without any symptom
OtherMsgs ==
    {"dial tcp 10.0.0.1:6443: connect: connection refused",
     "http2: client connection lost",
     "read tcp: CONNECTION RESET BY PEER",
     "Connection Refused",
     "Timeout: request did not complete",
     "net/http: TLS handshake timeout",
     "Temporary failure in name resolution",
     "forbidden", "not found", "context canceled", "context deadline exceeded",
     "connection closed", "time out"}

\* strings.ToLower, on the messages
ToLower_AsIs(s) == s
ToLower(s) ==
    CASE s = "read tcp: CONNECTION RESET BY PEER"   -> "read tcp: connection reset by peer"
      [] s = "Connection Refused"                   -> "connection refused"
      [] s = "Timeout: request did not complete"    -> "timeout: request did not complete"
      [] s = "net/http: TLS handshake timeout"      -> "net/http: tls handshake timeout"
      [] s = "Temporary failure in name resolution" -> "temporary failure in name resolution"
      [] OTHER                                      -> s

\* strings.Contains(s, sub), for sub one of the texts of transientErrors
Contains(s, sub) ==
    \/ s = sub
    \/ sub = "timeout" /\ s \in {"i/o timeout", "net/http: TLS handshake timeout",
                                 "net/http: tls handshake timeout",
                                 "timeout: request did not complete"}
    \/ sub = "connection refused" /\ s = "dial tcp 10.0.0.1:6443: connect: connection refused"
    \/ sub = "client connection lost" /\ s = "http2: client connection lost"
    \/ sub = "connection reset by peer" /\ s = "read tcp: connection reset by peer"
    \/ sub = "temporary failure" /\ s = "temporary failure in name resolution"

isTransientError_Never(err) == FALSE
isTransientError(err) ==
    IF err = NoErr THEN FALSE
    ELSE (\E t \in TransientMsgs : Contains(ToLower(err.msg), t)) \/ err.net

\* Pod addresses and node names are numbered; 0 stands for the empty string.
\* Pod i of a listing has its own address i and node i once it is placed; a
\* pod can hold an address while its phase is still Pending.
PodAt(i) == { [phase |-> p, ip |-> x, node |-> x] : p \in {"Running", "Pending"}, x \in {0, i} }

PodLists == UNION { { f \in [1..n -> UNION {PodAt(i) : i \in 1..n}] :
                        \A i \in 1..n : f[i] \in PodAt(i) } : n \in 0..MaxPods }

ListPodsAnswers == [err : ApiErrors, pods : {<<>>}] \cup [err : {NoErr}, pods : PodLists]

Jobs == [Succeeded : 0..1, Failed : 0..1, Active : 0..1]
GetJobAnswers == [err : ApiErrors, job : {[Succeeded |-> 0, Failed |-> 0, Active |-> 0]}]
                     \cup [err : {NoErr}, job : Jobs]

\* render a template, then ApplyManifest
ApplyOutcomes == {"ok", "render", "apply"}

----------------------------------------------------------------------------
(* kubernetes.Client *)

\* readyCount of WaitForPodsReady: pods whose phase is Running
ReadyCount_AllPods(pods) == Len(pods)
ReadyCount(pods) == Cardinality({i \in DOMAIN pods : pods[i].phase = "Running"})

\* one evaluation of the condition function of WaitForPodsReady
PodsReadyCheck(ans, expectedCount) ==
    IF ans.err # NoErr
    THEN IF isTransientError(ans.err) THEN "notReady" ELSE "fatal"
    ELSE IF ReadyCount(ans.pods) >= expectedCount THEN "ready" ELSE "notReady"

\* one evaluation of the condition function of WaitForJobCompletion
JobCompletionCheck_Inactive(ans) ==
    IF ans.err # NoErr
    THEN IF isTransientError(ans.err) THEN "notReady" ELSE "fatal"
    ELSE IF ans.job.Active = 0 THEN "ready"
    ELSE IF ans.job.Failed > 0 THEN "jobFailed"
    ELSE "notReady"

JobCompletionCheck(ans) ==
    IF ans.err # NoErr
    THEN IF isTransientError(ans.err) THEN "notReady" ELSE "fatal"
    ELSE IF ans.job.Succeeded > 0 THEN "ready"
    ELSE IF ans.job.Failed > 0 THEN "jobFailed"
    ELSE "notReady"

\* GetPodIPs: map of pod IP to node name over pods that have both
GetPodIPs(pods) ==
    LET ok  == {i \in DOMAIN pods : pods[i].ip # 0 /\ pods[i].node # 0}
        ips == {pods[i].ip : i \in ok}
        last(ip) == CHOOSE i \in ok : pods[i].ip = ip /\
                        \A j \in ok : pods[j].ip = ip => j <= i
    IN  [ip \in ips |-> pods[last(ip)].node]

----------------------------------------------------------------------------
(* benchmark.Manager *)

Range(s) == {s[i] : i \in DOMAIN s}

\* the manifests deployInfrastructure applies, in its order, as <<kind, number>>
DeployManifests_WorkersFirst(c) ==
    << <<"fio-configmap", 0>> >>
    \o (IF c.Prefill THEN << <<"fio-prefill-configmap", 0>> >> ELSE <<>>)
    \o [i \in 1..c.Servers |-> <<"server", i>>]
    \o (IF c.StorageClass THEN [i \in 1..c.Servers |-> <<"pvc", i>>] ELSE <<>>)

DeployManifests(c) ==
    << <<"fio-configmap", 0>> >>
    \o (IF c.Prefill THEN << <<"fio-prefill-configmap", 0>> >> ELSE <<>>)
    \o (IF c.StorageClass THEN [i \in 1..c.Servers |-> <<"pvc", i>>] ELSE <<>>)
    \o [i \in 1..c.Servers |-> <<"server", i>>]

Return(op, err) == [op |-> op, err |-> err]

\* RunBenchmark line 119: whether the prefill phase is run
ShouldRunPrefill_Never == FALSE
ShouldRunPrefill == cfg.Prefill

\* runPrefill line 290: the phase set once the prefill job is done
PrefillDonePhase_Back == "StartingClient"
PrefillDonePhase == "StartBenchmark"

\* what an API call returns once the context passed to it is cancelled: the
\* context's error, bare or wrapped by the HTTP transport (a net.Error)
CancelledErrs == { [msg |-> "context canceled", net |-> FALSE],
                   [msg |-> "context canceled", net |-> TRUE] }

\* an error that shows a network symptom: its text or its type (net.Error)
NetworkSymptom(err) == err # NoErr /\ (err.net \/ err.msg \in TransientMsgs)

\* ListPods / GetJob with the context of the call
ListPodsCall == IF cancelled THEN [err : CancelledErrs, pods : {<<>>}] ELSE ListPodsAnswers
GetJobCall   == IF cancelled
                THEN [err : CancelledErrs, job : {[Succeeded |-> 0, Failed |-> 0, Active |-> 0]}]
                ELSE GetJobAnswers

\* wait.PollImmediate: elapsed intervals at the first check
FirstCheckAt == 0

\* wait.PollImmediate: elapsed intervals at the check after the n-th one,
\* which was made at t
NextTick_Backoff(t, n) == t + n
NextTick(t, n) == t + 1

\* positions of RunBenchmark inside WaitForPodsReady / WaitForJobCompletion
WaitPositions == {"waitServers", "prefillWait", "completion"}

\* record of the wait in progress (or of the one that just ended, until the
\* run moves on): the checks made, how
\* many of them met a network error, what the last one met, how the wait
\* ended, and the elapsed intervals when the context was cancelled (-1: never)
NoJob == [Succeeded |-> 0, Failed |-> 0, Active |-> 0]
NoWait == [kind |-> "none", checks |-> 0, netErrs |-> 0, lastErr |-> NoErr,
           lastJob |-> NoJob, outcome |-> "none", cancelTick |-> -1]
NewWait(kind) == [NoWait EXCEPT !.kind = kind, !.outcome = "pending"]

\* runPrefill lines 284-286: the error of the wait is returned
PrefillErrorReturned_Ignored == FALSE
PrefillErrorReturned == TRUE

\* a step of RunBenchmark ends with an error: the error is wrapped and returned
Fail_Logged(err) ==
    /\ pc'  = pc
    /\ ret' = Return("RunBenchmark", err)

Fail(err) ==
    /\ pc'  = "idle"
    /\ ret' = Return("RunBenchmark", err)

\* the record of the wait in progress after one more check
Checked(err, job, outcome) ==
    [waitLog EXCEPT !.checks  = @ + 1,
                    !.netErrs = @ + (IF NetworkSymptom(err) THEN 1 ELSE 0),
                    !.lastErr = err,
                    !.lastJob = job,
                    !.outcome = outcome]

\* wait.PollImmediate: the timeout has elapsed after t intervals
TimedOut_AtOnce(t) == TRUE
TimedOut(t) == t >= MaxTicks

\* wait.PollImmediate after a check that gave r at elapsed time tick
PollOutcome_RetryAll(r) ==
    CASE r = "ready"     -> "ready"
      [] r = "jobFailed" -> "jobFailed"
      [] OTHER           -> IF TimedOut(tick) THEN "timeout" ELSE "pending"

PollOutcome(r) ==
    CASE r = "ready"     -> "ready"
      [] r = "fatal"     -> "fatal"
      [] r = "jobFailed" -> "jobFailed"
      [] OTHER           -> IF TimedOut(tick) THEN "timeout" ELSE "pending"

RunBenchmark ==
    /\ pc = "idle"
    /\ calls < MaxCalls
    /\ calls' = calls + 1
    /\ pc' = "deploy"
    /\ idx' = 1
    /\ tick' = 0
    /\ entryState' = state
    /\ trail' = <<>>
    /\ applied' = <<>>
    /\ maxRunning' = -1
    /\ collected' = -1
    /\ asleep' = FALSE
    /\ cancelled' = FALSE
    /\ waitLog' = NoWait
    /\ ret' = Return("RunBenchmark", "running")
    /\ UNCHANGED <<cfg, state, podDetails, clusterVars, fioVars, rescanVars>>

\* one render + ApplyManifest of deployInfrastructure
deployInfrastructure ==
    /\ pc = "deploy"
    /\ \E o \in ApplyOutcomes :
         /\ IF o # "ok"
            THEN /\ Fail(o)
                 /\ UNCHANGED <<state, idx, trail, applied, waitLog>>
            ELSE /\ applied' = Append(applied, DeployManifests(cfg)[idx])
                 /\ IF idx < Len(DeployManifests(cfg))
                    THEN /\ idx' = idx + 1
                         /\ UNCHANGED <<state, pc, ret, trail, waitLog>>
                    ELSE /\ state' = "StartingServers"
                         /\ trail' = Append(trail, "StartingServers")
                         /\ pc' = "waitServers"
                         /\ waitLog' = NewWait("pods")
                         /\ UNCHANGED <<idx, ret>>
    /\ tick' = FirstCheckAt
    /\ UNCHANGED <<cfg, podDetails, calls, entryState, maxRunning, collected, asleep,
                   cancelled, clusterVars, fioVars, rescanVars>>

\* one check of WaitForPodsReady inside waitForServers
waitForServers_Poll ==
    /\ pc = "waitServers"
    /\ ~asleep
    /\ \E ans \in ListPodsCall :
         LET r == PodsReadyCheck(ans, cfg.Servers)
             seen == IF ans.err = NoErr
                     THEN Cardinality({i \in DOMAIN ans.pods : ans.pods[i].phase = "Running"})
                     ELSE -1
         IN  /\ maxRunning' = IF seen > maxRunning THEN seen ELSE maxRunning
             /\ waitLog' = Checked(ans.err, NoJob, PollOutcome(r))
             /\ CASE PollOutcome(r) = "ready"   -> /\ pc' = "getPodIPs"
                                                     /\ UNCHANGED <<ret, asleep>>
                  [] PollOutcome(r) = "pending" -> /\ asleep' = TRUE
                                                     /\ UNCHANGED <<pc, ret>>
                  [] OTHER                      -> /\ Fail(PollOutcome(r))
                                                     /\ UNCHANGED asleep
    /\ UNCHANGED <<cfg, state, podDetails, idx, tick, calls, entryState, trail, applied,
                   collected, cancelled, clusterVars, fioVars, rescanVars>>

\* waitForServers line 223: the collected addresses are as many as the servers
CountMatches_Unchecked(n, servers) == TRUE
CountMatches(n, servers) == n = servers

\* GetPodIPs and the count check of waitForServers
waitForServers_Collect ==
    /\ pc = "getPodIPs"
    /\ \E ans \in ListPodsCall :
         IF ans.err # NoErr
         THEN /\ Fail("listPods")
              /\ UNCHANGED <<state, podDetails, trail, collected>>
         ELSE LET got == GetPodIPs(ans.pods)
              IN  /\ collected' = Cardinality(DOMAIN got)
                  /\ IF ~CountMatches(Cardinality(DOMAIN got), cfg.Servers)
                     THEN /\ Fail("podCount")
                          /\ UNCHANGED <<state, podDetails, trail>>
                     ELSE /\ podDetails' = got
                          /\ state' = "StartingClient"
                          /\ trail' = Append(trail, "StartingClient")
                          /\ pc' = "hosts"
                          /\ UNCHANGED ret
    /\ waitLog' = NoWait
    /\ UNCHANGED <<cfg, idx, tick, calls, entryState, applied, maxRunning, asleep,
                   cancelled, clusterVars, fioVars, rescanVars>>

\* RunBenchmark lines 112-114: the error of createHostsConfigMap is returned
HostsErrorReturned_Ignored == FALSE
HostsErrorReturned == TRUE

createHostsConfigMap ==
    /\ pc = "hosts"
    /\ \E o \in ApplyOutcomes :
         /\ IF o # "ok" /\ HostsErrorReturned
            THEN /\ Fail(o)
                 /\ UNCHANGED applied
            ELSE /\ applied' = IF o = "ok" THEN Append(applied, <<"fio-hosts", 0>>)
                                ELSE applied
                 /\ pc' = IF ShouldRunPrefill THEN "prefill" ELSE "client"
                 /\ UNCHANGED ret
    /\ UNCHANGED <<cfg, state, podDetails, idx, tick, calls, entryState, trail,
                   maxRunning, collected, waitVars, clusterVars, fioVars, rescanVars>>

\* runPrefill line 265
runPrefill_Begin ==
    /\ pc = "prefill"
    /\ state' = "Prefilling"
    /\ trail' = Append(trail, "Prefilling")
    /\ pc' = "prefillApply"
    /\ UNCHANGED <<cfg, podDetails, idx, tick, ret, calls, entryState, applied,
                   maxRunning, collected, waitVars, clusterVars, fioVars, rescanVars>>

\* runPrefill lines 267-274
runPrefill_Apply ==
    /\ pc = "prefillApply"
    /\ \E o \in ApplyOutcomes :
         /\ IF o # "ok"
            THEN /\ Fail(o)
                 /\ UNCHANGED <<applied, waitLog>>
            ELSE /\ applied' = Append(applied, <<"fio-prefill", 0>>)
                 /\ pc' = "prefillWait"
                 /\ waitLog' = NewWait("prefill")
                 /\ UNCHANGED ret
    /\ tick' = FirstCheckAt
    /\ asleep' = FALSE
    /\ UNCHANGED <<cfg, state, podDetails, idx, calls, entryState, trail,
                   maxRunning, collected, cancelled, clusterVars, fioVars, rescanVars>>

\* one check of WaitForJobCompletion inside runPrefill, then lines 284-293
runPrefill_Wait ==
    /\ pc = "prefillWait"
    /\ ~asleep
    /\ \E ans \in GetJobCall :
         LET r == JobCompletionCheck(ans)
         IN  /\ waitLog' = Checked(ans.err, ans.job, PollOutcome(r))
             /\ CASE PollOutcome(r) = "ready"   -> /\ state' = PrefillDonePhase
                                                     /\ trail' = Append(trail, PrefillDonePhase)
                                                     /\ pc' = "client"
                                                     /\ UNCHANGED <<ret, asleep>>
                  [] PollOutcome(r) = "pending" -> /\ asleep' = TRUE
                                                     /\ UNCHANGED <<state, trail, pc, ret>>
                  [] OTHER                      -> IF PrefillErrorReturned
                                                     THEN /\ Fail(PollOutcome(r))
                                                          /\ UNCHANGED <<state, trail, asleep>>
                                                     ELSE /\ pc' = "client"
                                                          /\ UNCHANGED <<state, trail, ret, asleep>>
    /\ UNCHANGED <<cfg, podDetails, idx, tick, calls, entryState, applied, maxRunning,
                   collected, cancelled, clusterVars, fioVars, rescanVars>>

\* runBenchmarkClient lines 300-302
runBenchmarkClient_Begin ==
    /\ pc = "client"
    /\ IF ~cfg.Prefill
       THEN /\ state' = "StartBenchmark"
            /\ trail' = Append(trail, "StartBenchmark")
       ELSE UNCHANGED <<state, trail>>
    /\ pc' = "clientApply"
    /\ waitLog' = NoWait
    /\ UNCHANGED <<cfg, podDetails, idx, tick, ret, calls, entryState, applied,
                   maxRunning, collected, asleep, cancelled, clusterVars, fioVars,
                   rescanVars>>

\* runBenchmarkClient lines 304-316
runBenchmarkClient_Apply ==
    /\ pc = "clientApply"
    /\ \E o \in ApplyOutcomes :
         /\ IF o # "ok"
            THEN /\ Fail(o)
                 /\ UNCHANGED <<state, trail, applied, waitLog>>
            ELSE /\ applied' = Append(applied, <<"fio-client", 0>>)
                 /\ state' = "Running"
                 /\ trail' = Append(trail, "Running")
                 /\ pc' = "completion"
                 /\ waitLog' = NewWait("completion")
                 /\ UNCHANGED ret
    /\ tick' = FirstCheckAt
    /\ asleep' = FALSE
    /\ UNCHANGED <<cfg, podDetails, idx, calls, entryState, maxRunning, collected,
                   cancelled, clusterVars, fioVars, rescanVars>>

\* one check of WaitForJobCompletion inside waitForCompletion, then
\* RunBenchmark lines 135-138
waitForCompletion ==
    /\ pc = "completion"
    /\ ~asleep
    /\ \E ans \in GetJobCall :
         LET r == JobCompletionCheck(ans)
         IN  /\ waitLog' = Checked(ans.err, ans.job, PollOutcome(r))
             /\ CASE PollOutcome(r) = "ready"   -> /\ state' = "Completed"
                                                     /\ trail' = Append(trail, "Completed")
                                                     /\ pc' = "idle"
                                                     /\ ret' = Return("RunBenchmark", "nil")
                                                     /\ UNCHANGED asleep
                  [] PollOutcome(r) = "pending" -> /\ asleep' = TRUE
                                                     /\ UNCHANGED <<state, trail, pc, ret>>
                  [] OTHER                      -> /\ Fail(PollOutcome(r))
                                                     /\ UNCHANGED <<state, trail, asleep>>
    /\ UNCHANGED <<cfg, podDetails, idx, tick, calls, entryState, applied, maxRunning,
                   collected, cancelled, clusterVars, fioVars, rescanVars>>

\* wait.PollImmediate: the interval between two checks of a wait elapses
PollInterval ==
    /\ pc \in WaitPositions
    /\ asleep
    /\ tick' = NextTick(tick, waitLog.checks)
    /\ asleep' = FALSE
    /\ UNCHANGED <<cfg, state, podDetails, pc, idx, ret, calls, histVars, cancelled,
                   waitLog, clusterVars, fioVars, rescanVars>>

\* the caller cancels the context it passed to RunBenchmark while a wait is
\* in progress
CancelContext ==
    /\ pc \in WaitPositions
    /\ ~cancelled
    /\ cancelled' = TRUE
    /\ waitLog' = [waitLog EXCEPT !.cancelTick = tick]
    /\ UNCHANGED <<mgrVars, histVars, asleep, clusterVars, fioVars, rescanVars>>

\* the history kept of a RunBenchmark invocation ends with the next call
ForgetInvocation ==
    /\ idx' = 1
    /\ tick' = 0
    /\ entryState' = state
    /\ trail' = <<>>
    /\ applied' = <<>>
    /\ maxRunning' = -1
    /\ collected' = -1
    /\ asleep' = FALSE
    /\ cancelled' = FALSE
    /\ waitLog' = NoWait

\* Manager.Cleanup: the first CleanupResources decides the result, a failure
\* of the second is only logged
Cleanup ==
    /\ pc = "idle"
    /\ \E first \in {"ok", "fail"}, second \in {"ok", "fail"} :
         ret' = Return("Cleanup", IF first = "ok" THEN "nil" ELSE "cleanup")
    /\ ForgetInvocation
    /\ UNCHANGED <<cfg, state, podDetails, pc, calls, clusterVars, fioVars, rescanVars>>

GetState ==
    /\ pc = "idle"
    /\ ret' = Return("GetState", state)
    /\ ForgetInvocation
    /\ UNCHANGED <<cfg, state, podDetails, pc, calls, clusterVars, fioVars, rescanVars>>

----------------------------------------------------------------------------
(* Specification of the Manager *)

\* a line of log text: leading / trailing white space or not, and its text:
\*   start : "FIO Result for <id>"       end  : "END FIO Result for <id>"
\*   json  : the JSON document of payload number p, on one line
\*   text  : anything else                blank : nothing
LogLine(ws, k, id, p) == [ws |-> ws, k |-> k, id |-> id, p |-> p]
NoLine == LogLine(FALSE, "none", "", 0)

\* csv before ExportResultsToCSV was called
NotExported == [err |-> "not called", file |-> <<>>]

\* no log text is being re-scanned
RescanIdle ==
    /\ logText = <<>>
    /\ scanNo = 0
    /\ firstSummaries = <<>>

FioIdle ==
    /\ RescanIdle
    /\ line = NoLine
    /\ pos = 1
    /\ testID = ""
    /\ inJSONBlock = FALSE
    /\ currentJSON = <<>>
    /\ results = <<>>
    /\ blockIDs = <<>>
    /\ callerID = ""
    /\ summaries = <<>>
    /\ stdout = <<>>
    /\ csv = NotExported
    /\ stage = "off"

NotCleaned == [n |-> 0, removed |-> 0, after |-> {}]
NoFlags == [cleanup |-> FALSE, dryRun |-> FALSE]

\* no process of the tool has run
ToolIdle ==
    /\ cluster = {}
    /\ verbs = {}
    /\ cleaned = NotCleaned
    /\ flags = NoFlags
    /\ mainPc = "exit"
    /\ step = 1
    /\ exit = "none"
    /\ classified = <<>>

\* NewManager
Init ==
    /\ cfg \in [Prefill : BOOLEAN, Servers : 1..MaxServers, StorageClass : BOOLEAN]
    /\ state = "Building"
    /\ podDetails = <<>>
    /\ pc = "idle"
    /\ idx = 1
    /\ tick = 0
    /\ ret = Return("NewManager", "nil")
    /\ calls = 0
    /\ entryState = "Building"
    /\ trail = <<>>
    /\ applied = <<>>
    /\ maxRunning = -1
    /\ collected = -1
    /\ asleep = FALSE
    /\ cancelled = FALSE
    /\ waitLog = NoWait
    /\ ToolIdle
    /\ FioIdle

Next ==
    \/ RunBenchmark
    \/ deployInfrastructure
    \/ waitForServers_Poll
    \/ waitForServers_Collect
    \/ createHostsConfigMap
    \/ runPrefill_Begin
    \/ runPrefill_Apply
    \/ runPrefill_Wait
    \/ runBenchmarkClient_Begin
    \/ runBenchmarkClient_Apply
    \/ waitForCompletion
    \/ PollInterval
    \/ CancelContext
    \/ Cleanup
    \/ GetState

Spec == Init /\ [][Next]_vars

\* RunBenchmark on a Manager that NewManager just returned
RunBenchmark_New ==
    /\ calls = 0
    /\ RunBenchmark

NextLive ==
    \/ RunBenchmark_New
    \/ deployInfrastructure
    \/ waitForServers_Poll
    \/ waitForServers_Collect
    \/ createHostsConfigMap
    \/ runPrefill_Begin
    \/ runPrefill_Apply
    \/ runPrefill_Wait
    \/ runBenchmarkClient_Begin
    \/ runBenchmarkClient_Apply
    \/ waitForCompletion
    \/ PollInterval
    \/ CancelContext
    \/ Cleanup
    \/ GetState

\* the run of one RunBenchmark goes on: a check in progress returns, and the
\* interval between two checks of a wait elapses
SpecLive ==
    /\ Init
    /\ [][NextLive]_vars
    /\ WF_vars(waitForServers_Poll \/ runPrefill_Wait \/ waitForCompletion \/ PollInterval)

----------------------------------------------------------------------------
(* fio results: decoded payloads *)

MaxResults == 2     \* decoded payloads handed to ExtractResultSummaries
MaxLines   == 6     \* lines of log text the scanner reads

\* float64 values are held in thousandths: FloatOf(n) stands for n.000
FloatOf(n) == n * 1000

\* an entry of LatStats.Percentile (map[string]interface{}): absent, a
\* non-numeric value, or a float64 number of nanoseconds
NoEntry      == [t |-> "missing", v |-> 0]
TextEntry    == [t |-> "string",  v |-> 0]
Nanos(n)     == [t |-> "float64", v |-> FloatOf(n)]

IOStats(total, iops, bw, p50, p95) ==
    [TotalIOs |-> total, IOPS |-> FloatOf(iops), BW |-> bw, P50 |-> p50, P95 |-> p95]

ClientStats(name, host, runtime, rd, wr) ==
    [JobName |-> name, Hostname |-> host, JobRuntime |-> runtime, Read |-> rd, Write |-> wr]

IdleIO == IOStats(0, 0, 0, NoEntry, NoEntry)

\* worker stats a payload can hold
AllClientsStat ==
    ClientStats("All clients", "All clients", 61999,
                IOStats(40, 80, 320, Nanos(2500), Nanos(7000)),
                IOStats(20, 30, 120, Nanos(3500), Nanos(9000)))
ReadOnlyStat ==
    ClientStats("randread", "10.0.0.1", 60500,
                IOStats(40, 80, 320, Nanos(2500), Nanos(7000)), IdleIO)
\* reads only; the write section still carries numbers (total_ios = 0)
ReadStaleWriteStat ==
    ClientStats("randread", "10.0.0.2", 59999,
                IOStats(25, 55, 220, Nanos(1250), Nanos(4000)),
                IOStats(0, 13, 52, Nanos(8000), Nanos(9500)))
WriteOnlyStat ==
    ClientStats("randwrite", "10.0.0.1", 30000,
                IOStats(0, 11, 44, Nanos(6000), Nanos(6500)),
                IOStats(20, 30, 120, Nanos(3500), Nanos(9000)))
MixedStat ==
    ClientStats("randrw", "10.0.0.2", 1999,
                IOStats(12, 24, 96, Nanos(1500), Nanos(2000)),
                IOStats(7, 14, 56, Nanos(4500), Nanos(5000)))
NoIOStat == ClientStats("idle", "10.0.0.3", 999, IdleIO, IdleIO)
\* reads happened, the percentile map lacks 50.000000 and holds text at 95.000000
ReadNoPercentileStat ==
    ClientStats("randread", "10.0.0.3", 0,
                IOStats(5, 9, 36, NoEntry, TextEntry), IdleIO)

StatChoices == {AllClientsStat, ReadOnlyStat, ReadStaleWriteStat, WriteOnlyStat,
                MixedStat, NoIOStat, ReadNoPercentileStat}

FIOResult(stats) == [ClientStats |-> stats]

\* payloads: client_stats of zero, one or two entries
Payloads == {FIOResult(<<>>)}
              \cup {FIOResult(<<a>>) : a \in StatChoices}
              \cup {FIOResult(<<a, b>>) : a \in StatChoices, b \in StatChoices}

ResultLists == UNION { [1..n -> Payloads] : n \in 0..MaxResults }

TestIDs == {"T1", "T2"}

----------------------------------------------------------------------------
(* fio.ExtractResultSummaries *)

AggregateName == "All clients"

\* the skip of the aggregate entry, lines 159-162
IsSkipped_Nothing(client) == FALSE
IsSkipped(client) == client.JobName = AggregateName

\* p / 1000.0 on a float64 held in thousandths
Div1000(f) == f \div 1000

\* Percentile[key].(float64) followed by the conversion to microseconds
LatencyMicros_Unconverted(entry) == IF entry.t = "float64" THEN entry.v ELSE 0
LatencyMicros(entry) == IF entry.t = "float64" THEN Div1000(entry.v) ELSE 0

\* whether a direction's fields are filled in, lines 173 and 187
Exercised_Always(io) == TRUE
Exercised(io) == io.TotalIOs > 0

\* lines 164-198: the one row built for a worker stat
SummaryOf(client, tid, sample) ==
    [TestID      |-> tid,
     Sample      |-> sample,
     JobName     |-> client.JobName,
     Hostname    |-> client.Hostname,
     Runtime     |-> client.JobRuntime \div 1000,
     ReadIOPS    |-> IF Exercised(client.Read)  THEN client.Read.IOPS ELSE 0,
     ReadBW      |-> IF Exercised(client.Read)  THEN client.Read.BW ELSE 0,
     ReadLatP50  |-> IF Exercised(client.Read)  THEN LatencyMicros(client.Read.P50) ELSE 0,
     ReadLatP95  |-> IF Exercised(client.Read)  THEN LatencyMicros(client.Read.P95) ELSE 0,
     WriteIOPS   |-> IF Exercised(client.Write) THEN client.Write.IOPS ELSE 0,
     WriteBW     |-> IF Exercised(client.Write) THEN client.Write.BW ELSE 0,
     WriteLatP50 |-> IF Exercised(client.Write) THEN LatencyMicros(client.Write.P50) ELSE 0,
     WriteLatP95 |-> IF Exercised(client.Write) THEN LatencyMicros(client.Write.P95) ELSE 0]

\* line 200: what one worker stat appends to summaries
RowsForStat_Split(client, tid, sample) ==
    IF Exercised(client.Read) /\ Exercised(client.Write)
    THEN <<SummaryOf([client EXCEPT !.Write = IdleIO], tid, sample),
           SummaryOf([client EXCEPT !.Read = IdleIO], tid, sample)>>
    ELSE <<SummaryOf(client, tid, sample)>>
RowsForStat(client, tid, sample) == <<SummaryOf(client, tid, sample)>>

\* inner loop, lines 158-201
RECURSIVE RowsOf(_, _, _, _)
RowsOf(stats, tid, sample, i) ==
    IF i > Len(stats) THEN <<>>
    ELSE IF IsSkipped(stats[i]) THEN RowsOf(stats, tid, sample, i + 1)
    ELSE RowsForStat(stats[i], tid, sample) \o RowsOf(stats, tid, sample, i + 1)

\* outer loop, lines 157-204: sampleIdx + 1 is the 1-based position in results
RECURSIVE ExtractFrom(_, _, _)
ExtractFrom(res, tid, k) ==
    IF k > Len(res) THEN <<>>
    ELSE RowsOf(res[k].ClientStats, tid, k, 1) \o ExtractFrom(res, tid, k + 1)

ExtractResultSummaries_NewestFirst(res, tid) ==
    LET rows == ExtractFrom(res, tid, 1)
    IN  [i \in 1..Len(rows) |-> rows[Len(rows) + 1 - i]]
ExtractResultSummaries(res, tid) == ExtractFrom(res, tid, 1)

----------------------------------------------------------------------------
(* fio.PrintResultsTable and fio.ExportResultsToCSV *)

OutLine(kind, cells) == [kind |-> kind, cells |-> cells]

\* "%.1f" / FormatFloat(x, 'f', 1, 64): tenths, rounded
Format1(f) == (f + 50) \div 100

TableRow(r) ==
    OutLine("row", <<r.TestID, r.Sample, r.JobName, r.Hostname,
                     Format1(r.ReadIOPS), r.ReadBW, Format1(r.WriteIOPS), r.WriteBW,
                     Format1(r.ReadLatP50), Format1(r.ReadLatP95),
                     Format1(r.WriteLatP50), Format1(r.WriteLatP95), r.Runtime>>)

TableHeader ==
    <<"Test ID", "Sample", "Job", "Hostname", "Read IOPS", "Read BW (KB/s)",
      "Write IOPS", "Write BW (KB/s)", "Read Lat P50", "Read Lat P95",
      "Write Lat P50", "Write Lat P95", "Runtime (s)">>

NoResultsNotice == OutLine("No FIO results found", <<>>)

\* what PrintResultsTable writes to standard output
PrintResultsTable_NoGuard(sums) ==
    <<OutLine("title", <<>>), OutLine("header", TableHeader), OutLine("rule", <<>>)>>
      \o [i \in 1..Len(sums) |-> TableRow(sums[i])]
      \o <<OutLine("blank", <<>>)>>
PrintResultsTable(sums) ==
    IF Len(sums) = 0
    THEN <<NoResultsNotice>>
    ELSE <<OutLine("title", <<>>), OutLine("header", TableHeader), OutLine("rule", <<>>)>>
           \o [i \in 1..Len(sums) |-> TableRow(sums[i])]
           \o <<OutLine("blank", <<>>)>>

CSVHeader == TableHeader \o <<"Timestamp">>

CSVRecord(r, timestamp) ==
    <<r.TestID, r.Sample, r.JobName, r.Hostname,
      Format1(r.ReadIOPS), r.ReadBW, Format1(r.WriteIOPS), r.WriteBW,
      Format1(r.ReadLatP50), Format1(r.ReadLatP95),
      Format1(r.WriteLatP50), Format1(r.WriteLatP95), r.Runtime, timestamp>>

\* ExportResultsToCSV: the returned error and the file written (<<>>: no file)
ExportResultsToCSV_NoGuard(sums, createOk, timestamp) ==
    IF ~createOk
    THEN [err |-> "failed to create CSV file", file |-> <<>>]
    ELSE [err |-> "nil",
          file |-> <<CSVHeader>> \o [i \in 1..Len(sums) |-> CSVRecord(sums[i], timestamp)]]
ExportResultsToCSV(sums, createOk, timestamp) ==
    IF Len(sums) = 0
    THEN [err |-> "no results to export", file |-> <<>>]
    ELSE IF ~createOk
    THEN [err |-> "failed to create CSV file", file |-> <<>>]
    ELSE [err |-> "nil",
          file |-> <<CSVHeader>> \o [i \in 1..Len(sums) |-> CSVRecord(sums[i], timestamp)]]

----------------------------------------------------------------------------
(* Specification of the summary functions: decoded payloads are drawn by     *)
(* Init, then ExtractResultSummaries, PrintResultsTable and                  *)
(* ExportResultsToCSV are applied to them.                                   *)

MgrIdle ==
    /\ cfg = [Prefill |-> FALSE, Servers |-> 1, StorageClass |-> FALSE]
    /\ state = "Building"
    /\ podDetails = <<>>
    /\ pc = "off"
    /\ idx = 1
    /\ tick = 0
    /\ ret = Return("NewManager", "nil")
    /\ calls = 0
    /\ entryState = "Building"
    /\ trail = <<>>
    /\ applied = <<>>
    /\ maxRunning = -1
    /\ collected = -1
    /\ asleep = FALSE
    /\ cancelled = FALSE
    /\ waitLog = NoWait
    /\ ToolIdle

InitSummary ==
    /\ MgrIdle
    /\ RescanIdle
    /\ line = NoLine
    /\ pos = 1
    /\ testID = ""
    /\ inJSONBlock = FALSE
    /\ currentJSON = <<>>
    /\ results \in ResultLists
    /\ blockIDs = <<>>
    /\ callerID \in TestIDs
    /\ summaries = <<>>
    /\ stdout = <<>>
    /\ csv = NotExported
    /\ stage = "decoded"

Extract ==
    /\ stage = "decoded"
    /\ summaries' = ExtractResultSummaries(results, callerID)
    /\ stage' = "extracted"
    /\ UNCHANGED <<mgrVars, histVars, waitVars, clusterVars, rescanVars, line, pos, testID, inJSONBlock, currentJSON,
                   results, blockIDs, callerID, stdout, csv>>

PrintTable ==
    /\ stage = "extracted"
    /\ stdout' = stdout \o PrintResultsTable(summaries)
    /\ stage' = "printed"
    /\ UNCHANGED <<mgrVars, histVars, waitVars, clusterVars, rescanVars, line, pos, testID, inJSONBlock, currentJSON,
                   results, blockIDs, callerID, summaries, csv>>

ExportCSV ==
    /\ stage = "printed"
    /\ \E createOk \in BOOLEAN : csv' = ExportResultsToCSV(summaries, createOk, "now")
    /\ stage' = "exported"
    /\ UNCHANGED <<mgrVars, histVars, waitVars, clusterVars, rescanVars, line, pos, testID, inJSONBlock, currentJSON,
                   results, blockIDs, callerID, summaries, stdout>>

NextSummary == Extract \/ PrintTable \/ ExportCSV

SpecSummary == InitSummary /\ [][NextSummary]_vars

----------------------------------------------------------------------------
(* fio.ParseFIOResults and fio.CaptureFIOResultsWithOptions *)

\* the payloads the benchmark job prints in the scanned log
ScanPayloads == <<FIOResult(<<AllClientsStat, MixedStat>>),
                  FIOResult(<<ReadOnlyStat>>),
                  FIOResult(<<AllClientsStat>>)>>

LineChoices ==
    {LogLine(w, k, id, 0) : w \in BOOLEAN, k \in {"start", "end"}, id \in TestIDs}
      \cup {LogLine(w, "json", "", p) : w \in BOOLEAN, p \in DOMAIN ScanPayloads}
      \cup {LogLine(FALSE, "text", "", 0), LogLine(FALSE, "blank", "", 0),
            LogLine(TRUE, "blank", "", 0)}

\* strings.TrimSpace
TrimSpace(l) == [l EXCEPT !.ws = FALSE]

\* strings.HasPrefix(line, "FIO Result for ") / (line, "END FIO Result for ")
IsStartLine(l) == l.k = "start"
IsEndLine(l)   == l.k = "end"

\* json.Unmarshal of the accumulated text: white space around one document
Unmarshal(buf) ==
    LET body == SelectSeq(buf, LAMBDA l : l.k # "blank")
    IN  IF Len(body) = 1 /\ body[1].k = "json"
        THEN [ok |-> TRUE,  result |-> ScanPayloads[body[1].p]]
        ELSE [ok |-> FALSE, result |-> FIOResult(<<>>)]

InitScan ==
    /\ MgrIdle
    /\ RescanIdle
    /\ line = NoLine
    /\ pos = 1
    /\ testID = ""
    /\ inJSONBlock = FALSE
    /\ currentJSON = <<>>
    /\ results = <<>>
    /\ blockIDs = <<>>
    /\ callerID \in TestIDs
    /\ summaries = <<>>
    /\ stdout = <<>>
    /\ csv = NotExported
    /\ stage = "scan"

\* the body of the loop of ParseFIOResults for one line, lines 117-147
ScanLine(raw) ==
    LET l == TrimSpace(raw)
    IN  /\ line' = raw
        /\ IF IsStartLine(l)
           THEN /\ testID' = l.id
                /\ inJSONBlock' = TRUE
                /\ currentJSON' = <<>>
                /\ UNCHANGED <<results, blockIDs>>
           ELSE IF IsEndLine(l)
           THEN /\ IF inJSONBlock /\ Len(currentJSON) > 0 /\ Unmarshal(currentJSON).ok
                   THEN /\ results' = Append(results, Unmarshal(currentJSON).result)
                        /\ blockIDs' = Append(blockIDs, testID)
                   ELSE UNCHANGED <<results, blockIDs>>
                /\ inJSONBlock' = FALSE
                /\ currentJSON' = <<>>
                /\ UNCHANGED testID
           ELSE /\ currentJSON' = IF inJSONBlock THEN Append(currentJSON, l)
                                  ELSE currentJSON
                /\ UNCHANGED <<testID, inJSONBlock, results, blockIDs>>

\* one iteration of the loop of ParseFIOResults, lines 116-148
ParseFIOResults_Line ==
    /\ stage = "scan"
    /\ pos <= MaxLines
    /\ \E raw \in LineChoices : ScanLine(raw)
    /\ pos' = pos + 1
    /\ UNCHANGED <<mgrVars, histVars, waitVars, clusterVars, rescanVars, callerID, summaries, stdout, csv, stage>>

\* the input is exhausted: ParseFIOResults returns, and
\* CaptureFIOResultsWithOptions (exportCSV = true) goes on, lines 325-344
CaptureFIOResults ==
    /\ stage = "scan"
    /\ IF Len(results) = 0
       THEN /\ stdout' = <<OutLine("No FIO results found in output", <<>>)>>
            /\ UNCHANGED <<summaries, csv>>
       ELSE \E createOk \in BOOLEAN :
              LET sums == ExtractResultSummaries(results, callerID)
                  out  == ExportResultsToCSV(sums, createOk, "now")
              IN  /\ summaries' = sums
                  /\ csv' = out
                  /\ stdout' = <<OutLine("Found FIO result(s)", <<Len(results)>>)>>
                                 \o PrintResultsTable(sums)
                                 \o <<IF out.err # "nil"
                                      THEN OutLine("Warning: Failed to export results to CSV",
                                                   <<out.err>>)
                                      ELSE OutLine("Results exported to", <<>>)>>
    /\ stage' = "captured"
    /\ UNCHANGED <<mgrVars, histVars, waitVars, clusterVars, rescanVars, line, pos, testID, inJSONBlock, currentJSON,
                   results, blockIDs, callerID>>

NextScan == ParseFIOResults_Line \/ CaptureFIOResults

SpecScan == InitScan /\ [][NextScan]_vars

----------------------------------------------------------------------------
(* Scanning one log text twice: ParseFIOResults followed by                  *)
(* ExtractResultSummaries, run again on the same text                        *)

MaxLogLen == 4      \* lines of the log text that is scanned twice
MaxScans  == 2      \* scans of the same text

\* the lines a re-scanned text is made of
RescanLines ==
    {LogLine(FALSE, "start", "T1", 0), LogLine(TRUE, "start", "T2", 0),
     LogLine(FALSE, "end", "T1", 0), LogLine(FALSE, "text", "", 0),
     LogLine(FALSE, "json", "", 1), LogLine(TRUE, "json", "", 2)}

RescanTexts == UNION { [1..n -> RescanLines] : n \in 0..MaxLogLen }

\* ParseFIOResults line 108: `var results []*FIOResult`
FreshResults_Kept == results
FreshResults == <<>>

\* ParseFIOResults lines 112-114: currentJSON, testID, inJSONBlock
FreshBlock_Kept == [testID |-> testID, inJSONBlock |-> inJSONBlock, currentJSON |-> currentJSON]
FreshBlock == [testID |-> "", inJSONBlock |-> FALSE, currentJSON |-> <<>>]

InitRescan ==
    /\ MgrIdle
    /\ logText \in RescanTexts
    /\ scanNo = 0
    /\ firstSummaries = <<>>
    /\ line = NoLine
    /\ pos = 1
    /\ testID = ""
    /\ inJSONBlock = FALSE
    /\ currentJSON = <<>>
    /\ results = <<>>
    /\ blockIDs = <<>>
    /\ callerID \in TestIDs
    /\ summaries = <<>>
    /\ stdout = <<>>
    /\ csv = NotExported
    /\ stage = "ready"

\* ParseFIOResults is entered with logText, lines 107-114
ParseFIOResults_Enter ==
    /\ stage = "ready"
    /\ scanNo < MaxScans
    /\ scanNo' = scanNo + 1
    /\ results' = FreshResults
    /\ blockIDs' = <<>>
    /\ testID' = FreshBlock.testID
    /\ inJSONBlock' = FreshBlock.inJSONBlock
    /\ currentJSON' = FreshBlock.currentJSON
    /\ pos' = 1
    /\ line' = NoLine
    /\ stage' = "reading"
    /\ UNCHANGED <<mgrVars, histVars, waitVars, clusterVars, logText, firstSummaries, callerID, summaries,
                   stdout, csv>>

\* one iteration of the loop over the lines of logText, lines 116-148
ParseFIOResults_Next ==
    /\ stage = "reading"
    /\ pos <= Len(logText)
    /\ ScanLine(logText[pos])
    /\ pos' = pos + 1
    /\ UNCHANGED <<mgrVars, histVars, waitVars, clusterVars, rescanVars, callerID, summaries, stdout, csv, stage>>

\* ParseFIOResults returns (line 150) and ExtractResultSummaries is applied
ExtractResultSummaries_Scanned ==
    /\ stage = "reading"
    /\ pos > Len(logText)
    /\ summaries' = ExtractResultSummaries(results, callerID)
    /\ firstSummaries' = IF scanNo = 1 THEN summaries' ELSE firstSummaries
    /\ stage' = "ready"
    /\ UNCHANGED <<mgrVars, histVars, waitVars, clusterVars, logText, scanNo, line, pos, testID, inJSONBlock,
                   currentJSON, results, blockIDs, callerID, stdout, csv>>

NextRescan == ParseFIOResults_Enter \/ ParseFIOResults_Next \/ ExtractResultSummaries_Scanned

SpecRescan == InitRescan /\ [][NextRescan]_vars

----------------------------------------------------------------------------
(* Client.ApplyManifest against the store of the API server *)

MaxApplies == 2    \* ApplyManifest calls in a row

\* a manifest: kind, metadata.namespace ("" when absent), metadata.name and
\* the rest of the document; Undecodable is text the decoder rejects
ManifestChoices ==
    [kind : {"ConfigMap", "Job"}, ns : {"", "bench"}, name : {"fio"}, content : {"v1", "v2"}]
Undecodable == [kind |-> "", ns |-> "", name |-> "", content |-> "not yaml"]
NamespaceArgs == {"", "default"}

\* a call of the dynamic client that fails for a reason of its own (network,
\* authorization): none, the Get, or the Create / Update
Faults == {"none", "get", "write"}

\* lines 139-142: the namespace the object is sent to
TargetNamespace(m, namespace) ==
    IF m.ns = "" /\ namespace # "" THEN namespace ELSE m.ns

\* a stored object
Stored(m, ns, rv) == [kind |-> m.kind, ns |-> ns, name |-> m.name, content |-> m.content,
                      rv |-> rv]

\* resourceClient.Get: the stored objects of that kind, namespace and name
Get(store, m, ns) == {o \in store : o.kind = m.kind /\ o.ns = ns /\ o.name = m.name}

\* resourceClient.Create: refused when the name is taken
Create(store, m, ns) ==
    IF Get(store, m, ns) # {}
    THEN [err |-> "already exists", store |-> store]
    ELSE [err |-> "nil", store |-> store \cup {Stored(m, ns, 1)}]

\* resourceClient.Update with the resource version rv: refused when the object
\* is gone or was changed since it was read
Update_Added(store, m, ns, rv) ==
    [err |-> "nil", store |-> store \cup {Stored(m, ns, rv + 1)}]
Update(store, m, ns, rv) ==
    LET old == Get(store, m, ns)
    IN  IF old = {} THEN [err |-> "not found", store |-> store]
        ELSE IF \A o \in old : o.rv # rv THEN [err |-> "conflict", store |-> store]
        ELSE [err |-> "nil", store |-> (store \ old) \cup {Stored(m, ns, rv + 1)}]

\* lines 130-176: the error returned, the calls made and the store afterwards
ApplyManifestOn(store, m, namespace, fault) ==
    IF m = Undecodable
    THEN [err |-> "decode", calls |-> <<>>, store |-> store]
    ELSE LET ns == TargetNamespace(m, namespace)
             existing == Get(store, m, ns)
         IN  IF fault = "get" \/ existing = {}
             THEN LET c == IF fault = "write"
                           THEN [err |-> "refused", store |-> store]
                           ELSE Create(store, m, ns)
                  IN  [err   |-> IF c.err # "nil" THEN "create" ELSE "nil",
                       calls |-> <<"get", "create">>,
                       store |-> c.store]
             ELSE LET rv == (CHOOSE o \in existing : TRUE).rv
                      u == IF fault = "write"
                           THEN [err |-> "refused", store |-> store]
                           ELSE Update(store, m, ns, rv)
                  IN  [err   |-> IF u.err # "nil" THEN "update" ELSE "nil",
                       calls |-> <<"get", "update">>,
                       store |-> u.store]

InitApply ==
    /\ MgrIdle
    /\ FioIdle

ApplyManifest ==
    /\ Len(applied) < MaxApplies
    /\ \E m \in ManifestChoices \cup {Undecodable}, namespace \in NamespaceArgs,
          fault \in Faults :
         \E r \in {ApplyManifestOn(cluster, m, namespace, fault)} :
             /\ cluster' = r.store
             /\ ret' = Return("ApplyManifest", r.err)
             /\ applied' = Append(applied, [manifest |-> m, namespace |-> namespace,
                                            fault |-> fault, err |-> r.err,
                                            calls |-> r.calls, before |-> cluster])
    /\ UNCHANGED <<cfg, state, podDetails, pc, idx, tick, calls, entryState, trail,
                   maxRunning, collected, waitVars, verbs, cleaned, flags, mainPc, step,
                   exit, classified, fioVars, rescanVars>>

NextApply == ApplyManifest

SpecApply == InitApply /\ [][NextApply]_vars

----------------------------------------------------------------------------
(* isTransientError, applied to one error after another *)

MaxClassified == 2    \* errors classified in a row

\* the values of type error: nil, and a message with or without the methods
\* of net.Error
ErrorValues == {NoErr} \cup [msg : TransientMsgs \cup OtherMsgs, net : BOOLEAN]

InitClassify ==
    /\ MgrIdle
    /\ FioIdle

isTransientError_Call ==
    /\ Len(classified) < MaxClassified
    /\ \E err \in ErrorValues :
         classified' = Append(classified, [err |-> err, transient |-> isTransientError(err)])
    /\ UNCHANGED <<cluster, verbs, cleaned, flags, mainPc, step, exit, mgrVars, histVars,
                   waitVars, fioVars, rescanVars>>

NextClassify == isTransientError_Call

SpecClassify == InitClassify /\ [][NextClassify]_vars

----------------------------------------------------------------------------
(* fio.ParseFIOResultsFromReader: the log is read line by line, and the      *)
(* text accumulated so far is handed to CaptureFIOResults after each line    *)
(* that contains the end delimiter and once more at the end of the stream.   *)

MaxStream == 6      \* lines the reader delivers

\* the lines the log stream is made of
ReaderLines ==
    {LogLine(FALSE, "start", "T1", 0), LogLine(TRUE, "end", "T1", 0),
     LogLine(TRUE, "json", "", 1), LogLine(FALSE, "json", "", 2),
     LogLine(FALSE, "text", "", 0)}

\* a text is a sequence of line contents and newline characters
NL == LogLine(FALSE, "newline", "", 0)
EmptyLine == LogLine(FALSE, "blank", "", 0)

\* logOutput.WriteString(line); logOutput.WriteString("\n")
WriteLine_NoNewline(text, l) == Append(text, l)
WriteLine(text, l) == text \o <<l, NL>>

\* two pieces of text with no newline between them are one line, which
\* begins as the first piece does
Concat(cur, l) ==
    IF cur = EmptyLine THEN l
    ELSE IF cur.k \in {"start", "end"} THEN cur
    ELSE LogLine(cur.ws, "text", "", 0)

\* strings.Split(logOutput, "\n")
RECURSIVE SplitFrom(_, _, _, _)
SplitFrom(text, i, cur, acc) ==
    IF i > Len(text) THEN Append(acc, cur)
    ELSE IF text[i] = NL THEN SplitFrom(text, i + 1, EmptyLine, Append(acc, cur))
    ELSE SplitFrom(text, i + 1, Concat(cur, text[i]), acc)

Split(text) == SplitFrom(text, 1, EmptyLine, <<>>)

\* strings.Join(lines, "\n"): a log as one buffered text
RECURSIVE Join(_)
Join(lines) ==
    IF Len(lines) = 0 THEN <<>>
    ELSE IF Len(lines) = 1 THEN <<lines[1]>>
    ELSE <<lines[1], NL>> \o Join(Tail(lines))

\* the locals of ParseFIOResults, lines 108-114, with the error it returns
\* and the number of warnings it printed
ScanStart ==
    [testID |-> "", inJSONBlock |-> FALSE, currentJSON |-> <<>>, results |-> <<>>,
     blockIDs |-> <<>>, warnings |-> 0, err |-> "nil"]

\* json.Unmarshal failed, lines 132-133: a warning is printed
OnDecodeFailure_Abort(st) == [st EXCEPT !.warnings = @ + 1, !.err = "parse"]
OnDecodeFailure(st) == [st EXCEPT !.warnings = @ + 1]

\* the body of the loop of ParseFIOResults for one line, lines 117-147
ScanStep(st, raw) ==
    LET l == TrimSpace(raw)
    IN  IF st.err # "nil" THEN st
        ELSE IF IsStartLine(l)
        THEN [st EXCEPT !.testID = l.id, !.inJSONBlock = TRUE, !.currentJSON = <<>>]
        ELSE IF IsEndLine(l)
        THEN LET closed ==
                   IF st.inJSONBlock /\ Len(st.currentJSON) > 0
                   THEN IF Unmarshal(st.currentJSON).ok
                        THEN [st EXCEPT !.results = Append(@, Unmarshal(st.currentJSON).result),
                                        !.blockIDs = Append(@, st.testID)]
                        ELSE OnDecodeFailure(st)
                   ELSE st
             IN  [closed EXCEPT !.inJSONBlock = FALSE, !.currentJSON = <<>>]
        ELSE IF st.inJSONBlock
        THEN [st EXCEPT !.currentJSON = Append(@, l)]
        ELSE st

RECURSIVE ScanFrom(_, _, _)
ScanFrom(st, lines, i) ==
    IF i > Len(lines) THEN st ELSE ScanFrom(ScanStep(st, lines[i]), lines, i + 1)

\* the lines are exhausted, line 150: what was accumulated is left behind
AtEndOfInput_Flush(st) ==
    IF st.inJSONBlock /\ Len(st.currentJSON) > 0 /\ Unmarshal(st.currentJSON).ok
    THEN [st EXCEPT !.results = Append(@, Unmarshal(st.currentJSON).result),
                    !.blockIDs = Append(@, st.testID)]
    ELSE st
AtEndOfInput(st) == st

\* ParseFIOResults as a function of the text
ParseFIOResults(logOutput) == AtEndOfInput(ScanFrom(ScanStart, Split(logOutput), 1))

\* CaptureFIOResultsWithOptions (exportCSV = true), lines 320-344, once
\* ParseFIOResults has returned st: the blocks, the summaries, the export and
\* the lines printed
CapturedFrom(st, tid, createOk) ==
    LET sums == ExtractResultSummaries(st.results, tid)
        out  == ExportResultsToCSV(sums, createOk, "now")
    IN  IF st.err # "nil"
        THEN [scan |-> st, summaries |-> <<>>, csv |-> NotExported,
              stdout |-> <<OutLine("Error parsing FIO results", <<st.err>>)>>]
        ELSE IF Len(st.results) = 0
        THEN [scan |-> st, summaries |-> <<>>, csv |-> NotExported,
              stdout |-> <<OutLine("No FIO results found in output", <<>>)>>]
        ELSE [scan |-> st, summaries |-> sums, csv |-> out,
              stdout |-> <<OutLine("Found FIO result(s)", <<Len(st.results)>>)>>
                           \o PrintResultsTable(sums)
                           \o <<IF out.err # "nil"
                                THEN OutLine("Warning: Failed to export results to CSV",
                                             <<out.err>>)
                                ELSE OutLine("Results exported to", <<>>)>>]

\* CaptureFIOResultsWithOptions as a function of the text
CaptureFIOResultsWithOptions(logOutput, tid, createOk) ==
    CHOOSE c \in {CapturedFrom(st, tid, createOk) : st \in {ParseFIOResults(logOutput)}} : TRUE

\* strings.Contains(line, "END FIO Result for")
ContainsEnd(l) == l.k = "end"

\* logOutput.String(): all that was written, from the first line on
LogOutput_String_LastLine(text) == SubSeq(text, Len(text) - 1, Len(text))
LogOutput_String(text) == text

\* the lines delivered so far
LinesRead == SelectSeq(logText, LAMBDA t : t # NL)

\* one pass of CaptureFIOResults over the text, as ParseFIOResultsFromReader
\* calls it; echo is what was printed before the pass
Pass(text, echo) ==
    \E createOk \in BOOLEAN :
       \E c \in {CaptureFIOResultsWithOptions(text, callerID, createOk)} :
           /\ results' = c.scan.results
           /\ blockIDs' = c.scan.blockIDs
           /\ testID' = c.scan.testID
           /\ inJSONBlock' = c.scan.inJSONBlock
           /\ currentJSON' = c.scan.currentJSON
           /\ summaries' = c.summaries
           /\ csv' = c.csv
           /\ stdout' = echo \o c.stdout
           /\ scanNo' = scanNo + 1

NoPass(echo) ==
    /\ stdout' = echo
    /\ UNCHANGED <<results, blockIDs, testID, inJSONBlock, currentJSON, summaries, csv,
                   scanNo>>

InitReader ==
    /\ MgrIdle
    /\ logText = <<>>
    /\ scanNo = 0
    /\ firstSummaries = <<>>
    /\ line = NoLine
    /\ pos = 1
    /\ testID = ""
    /\ inJSONBlock = FALSE
    /\ currentJSON = <<>>
    /\ results = <<>>
    /\ blockIDs = <<>>
    /\ callerID = "T1"
    /\ summaries = <<>>
    /\ stdout = <<>>
    /\ csv = NotExported
    /\ stage = "stream"

\* reader.Scan() delivers a line, lines 351-364
ParseFIOResultsFromReader_Scan ==
    /\ stage = "stream"
    /\ pos <= MaxStream
    /\ \E raw \in ReaderLines :
         /\ line' = raw
         /\ logText' = WriteLine(logText, raw)
         /\ IF ContainsEnd(raw)
            THEN Pass(LogOutput_String(logText'), <<OutLine("line", <<raw>>)>>)
            ELSE NoPass(<<OutLine("line", <<raw>>)>>)
    /\ pos' = pos + 1
    /\ UNCHANGED <<mgrVars, histVars, waitVars, clusterVars, firstSummaries, callerID, stage>>

\* reader.Scan() reports the end of the stream, lines 366-369
ParseFIOResultsFromReader_End ==
    /\ stage = "stream"
    /\ IF Len(logText) > 0 THEN Pass(LogOutput_String(logText), <<>>) ELSE NoPass(<<>>)
    /\ stage' = "done"
    /\ UNCHANGED <<mgrVars, histVars, waitVars, clusterVars, logText, firstSummaries, line, pos,
                   callerID>>

NextReader == ParseFIOResultsFromReader_Scan \/ ParseFIOResultsFromReader_End

SpecReader == InitReader /\ [][NextReader]_vars

----------------------------------------------------------------------------
(* Specification of the command line tool: each process runs main once, on   *)
(* the same configuration file; the cluster outlives the processes.          *)

MaxCleanups    == 2    \* Cleanup invocations in a row that are counted
MaxToolServers == 1    \* FIOConfig.Servers ranges over 1..MaxToolServers

\* the labels of a run: app (with the truncated UUID) and benchmark-uuid
RunLabels == {"app", "benchmark-uuid"}

\* the labels of the run a manifest rendered from a template file may carry:
\* every resource of a run carries the label of the run, benchmark-uuid
FileLabelSets == {ls \in SUBSET RunLabels : "benchmark-uuid" \in ls}

\* the configuration files: Config with the FIOConfig or the HammerDBConfig
\* it holds, and FileLabels, the labels in the template files

FioConfigs ==
    [workload : {"fio"}, Prefill : BOOLEAN, StorageClass : BOOLEAN,
     Kind : {"pod", "vm"}, Servers : 1..MaxToolServers, PrometheusURL : BOOLEAN,
     FileLabels : FileLabelSets]

HammerDBConfigs ==
    [workload : {"hammerdb"}, PVC : BOOLEAN, DBInit : BOOLEAN, DBBenchmark : BOOLEAN,
     Kind : {"pod", "vm"}, FileLabels : FileLabelSets]

\* the manifests rendered from a template that is written in the code
InlineManifests ==
    {"pvc", "fio-hosts", "hammerdb-pvc", "hammerdb-createdb-script",
     "hammerdb-workload-script", "hammerdb-vm-workload-script"}

\* kind of the object a manifest declares
KindOf(c, m) ==
    CASE m[1] \in {"fio-configmap", "fio-prefill-configmap", "fio-hosts",
                   "hammerdb-createdb-script", "hammerdb-workload-script",
                   "hammerdb-vm-workload-script"}                -> "ConfigMap"
      [] m[1] \in {"pvc", "hammerdb-pvc"}                        -> "PersistentVolumeClaim"
      [] m[1] = "server"  -> IF c.Kind = "vm" THEN "VirtualMachineInstance" ELSE "Pod"
      [] m[1] = "hammerdb-creator"
                          -> IF c.Kind = "vm" THEN "VirtualMachineInstance" ELSE "Job"
      [] OTHER                                                   -> "Job"

\* the labels of the run the object carries
LabelsOf(c, m) == IF m[1] \in InlineManifests THEN RunLabels ELSE c.FileLabels

Object(c, m) ==
    [name |-> m[1], no |-> m[2], kind |-> KindOf(c, m), labels |-> LabelsOf(c, m)]

Other(kind, name) == [name |-> name, no |-> 0, kind |-> kind, labels |-> {}]

PrometheusService == Other("Service", "prometheus")
Namespace         == Other("Namespace", "namespace")
TokenAccount      == Other("ServiceAccount", "k8s-io-prometheus")
TokenSecret       == Other("Secret", "k8s-io-prometheus-token")
ForeignPod        == Other("Pod", "other")

\* the kinds CleanupResources deletes, in its order
CleanupKinds_NoClaims == <<"Pod", "Job", "ConfigMap">>
CleanupKinds == <<"Pod", "Job", "ConfigMap", "PersistentVolumeClaim">>

DeleteVerbs == {"delete", "deletecollection"}
WriteVerbs  == {"create", "update"} \cup DeleteVerbs

\* an error return of RunBenchmark issues no further call
ErrorReturn_Cleanup(vs) == vs \cup {<<"deletecollection", k>> : k \in Range(CleanupKinds)}
ErrorReturn(vs) == vs

Step(do, m) == [do |-> do, m |-> m]
NoManifest == <<"", 0>>

\* fio.Workload.RunBenchmark: the calls it makes, in its order
FioSteps(c) ==
    [i \in 1..Len(DeployManifests(c)) |-> Step("apply", DeployManifests(c)[i])]
    \o << Step("waitPods", NoManifest), Step("getPodIPs", NoManifest),
          Step("apply", <<"fio-hosts", 0>>) >>
    \o (IF c.Prefill
        THEN << Step("apply", <<"fio-prefill", 0>>), Step("waitJob", NoManifest) >>
        ELSE <<>>)
    \o << Step("prometheus", NoManifest), Step("apply", <<"fio-client", 0>>),
          Step("waitJob", NoManifest) >>

\* hammerdb.Workload.RunBenchmark: the calls it makes, in its order
HammerDBSteps(c) ==
    (IF c.PVC THEN << Step("apply", <<"hammerdb-pvc", 0>>) >> ELSE <<>>)
    \o << Step("apply", <<"hammerdb-createdb-script", 0>>),
          Step("apply", <<"hammerdb-workload-script", 0>>) >>
    \o (IF c.Kind = "vm"
        THEN << Step("apply", <<"hammerdb-vm-workload-script", 0>>) >> ELSE <<>>)
    \o (IF c.DBInit
        THEN << Step("apply", <<"hammerdb-creator", 0>>), Step("waitJob", NoManifest) >>
        ELSE <<>>)
    \o (IF c.DBBenchmark
        THEN << Step("apply", <<"hammerdb-workload", 0>>), Step("waitJob", NoManifest) >>
        ELSE <<>>)

Steps(c) == IF c.workload = "fio" THEN FioSteps(c) ELSE HammerDBSteps(c)

\* ApplyManifest of object o: Get, then Update when the Get found it and
\* Create otherwise
ApplyVerbs(o) == {<<"get", o.kind>>, <<IF o \in cluster THEN "update" ELSE "create", o.kind>>}

\* createK8sIOToken: creates the service account, then the token secret;
\* account and secret tell whether each Create got through or found the
\* object in place
createK8sIOToken(objs, account, secret) ==
    objs \cup (IF account THEN {TokenAccount} ELSE {})
         \cup (IF account /\ secret THEN {TokenSecret} ELSE {})

\* createContextWithPrometheus: with no Prometheus URL in the configuration
\* the client looks for a Prometheus service and, if it gets one, for a token
createContextWithPrometheus ==
    IF cfg.PrometheusURL
    THEN UNCHANGED <<cluster, verbs>>
    ELSE \E found \in (IF PrometheusService \in cluster THEN BOOLEAN ELSE {FALSE}),
            account \in BOOLEAN, secret \in BOOLEAN :
           IF found
           THEN /\ cluster' = createK8sIOToken(cluster, account, secret)
                /\ verbs' = verbs \cup {<<"get", "Service">>, <<"create", "ServiceAccount">>}
                                  \cup (IF account THEN {<<"create", "Secret">>} ELSE {})
           ELSE /\ account /\ secret
                /\ verbs' = verbs \cup {<<"get", "Service">>}
                /\ UNCHANGED cluster

\* Client.CleanupResources with a selector on label: DeleteCollection on each
\* kind in turn; done is the number of calls that succeeded before one failed
CleanupResources(objs, label, done) ==
    {o \in objs : ~(label \in o.labels /\ \E k \in 1..done : CleanupKinds[k] = o.kind)}

CleanupVerbs(done) ==
    {<<"deletecollection", CleanupKinds[k]>> :
        k \in 1..(IF done < Len(CleanupKinds) THEN done + 1 ELSE done)}

\* main up to the creation of the workload: the flags are parsed, the
\* configuration is loaded
main ==
    /\ mainPc = "exit"
    /\ flags' \in [cleanup : BOOLEAN, dryRun : BOOLEAN]
    /\ mainPc' = IF flags'.cleanup THEN "cleanup"
                 ELSE IF flags'.dryRun THEN "dry-run" ELSE "namespace"
    /\ verbs' = {}
    /\ step' = 1
    /\ exit' = "none"
    /\ cleaned' = IF flags'.cleanup THEN cleaned ELSE NotCleaned
    /\ UNCHANGED <<cluster, classified, mgrVars, histVars, waitVars,
                   fioVars, rescanVars>>

\* main with -cleanup: workload.Cleanup. The fio workload deletes by the
\* benchmark-uuid label, whose failure is returned, then by the app label,
\* whose failure is only logged; the hammerdb workload deletes by the
\* benchmark-uuid label only.
main_Cleanup ==
    /\ mainPc = "cleanup"
    /\ \E first \in 0..Len(CleanupKinds),
          second \in (IF cfg.workload = "fio" THEN 0..Len(CleanupKinds) ELSE {0}) :
         LET ok == first = Len(CleanupKinds)
             afterFirst == CleanupResources(cluster, "benchmark-uuid", first)
             both == ok /\ cfg.workload = "fio"
         IN  /\ cluster' = IF both THEN CleanupResources(afterFirst, "app", second)
                           ELSE afterFirst
             /\ verbs' = verbs \cup CleanupVerbs(first)
                               \cup (IF both THEN CleanupVerbs(second) ELSE {})
             /\ exit' = IF ok THEN "ok" ELSE "fatal"
             /\ cleaned' =
                  IF ~ok THEN NotCleaned
                  ELSE IF cleaned.n = 0
                       THEN [n |-> 1, removed |-> Cardinality(cluster \ cluster'),
                             after |-> cluster']
                       ELSE [cleaned EXCEPT !.n = IF @ < MaxCleanups THEN @ + 1 ELSE @]
    /\ mainPc' = "exit"
    /\ UNCHANGED <<flags, step, classified, mgrVars, histVars, waitVars,
                   fioVars, rescanVars>>

\* main with -dry-run: workload.GenerateManifests, then the manifests are
\* printed. The fio workload renders the client with
\* RenderFIOClientWithPrometheus; reached tells whether rendering got that far.
main_DryRun ==
    /\ mainPc = "dry-run"
    /\ \E reached \in BOOLEAN, rendered \in BOOLEAN :
         /\ IF cfg.workload = "fio" /\ reached
            THEN createContextWithPrometheus
            ELSE UNCHANGED <<cluster, verbs>>
         /\ exit' = IF reached /\ rendered THEN "ok" ELSE "fatal"
    /\ mainPc' = "exit"
    /\ UNCHANGED <<cleaned, flags, step, classified, mgrVars, histVars, waitVars,
                   fioVars, rescanVars>>

\* main, a benchmark run: NamespaceExists, and CreateNamespace when it does
\* not exist
main_Namespace ==
    /\ mainPc = "namespace"
    /\ \E got \in BOOLEAN, created \in BOOLEAN :
         IF ~got
         THEN /\ verbs' = verbs \cup {<<"get", "Namespace">>}
              /\ mainPc' = "exit"
              /\ exit' = "fatal"
              /\ created
              /\ UNCHANGED cluster
         ELSE IF Namespace \in cluster
         THEN /\ verbs' = verbs \cup {<<"get", "Namespace">>}
              /\ mainPc' = "run"
              /\ created
              /\ UNCHANGED <<cluster, exit>>
         ELSE /\ verbs' = verbs \cup {<<"get", "Namespace">>, <<"create", "Namespace">>}
              /\ cluster' = IF created THEN cluster \cup {Namespace} ELSE cluster
              /\ mainPc' = IF created THEN "run" ELSE "exit"
              /\ exit' = IF created THEN exit ELSE "fatal"
    /\ UNCHANGED <<cleaned, flags, step, classified, mgrVars, histVars, waitVars,
                   fioVars, rescanVars>>

\* the step of RunBenchmark went through: the next one, or RunBenchmark
\* returns nil and main logs the success and returns
StepDone ==
    IF step < Len(Steps(cfg))
    THEN /\ step' = step + 1
         /\ UNCHANGED <<mainPc, exit>>
    ELSE /\ mainPc' = "exit"
         /\ exit' = "ok"
         /\ UNCHANGED step

\* the step of RunBenchmark failed: RunBenchmark returns the error and main
\* ends with log.Fatalf
StepFailed ==
    /\ mainPc' = "exit"
    /\ exit' = "fatal"
    /\ UNCHANGED step

\* workload.RunBenchmark of either workload, one call at a time
Workload_RunBenchmark ==
    /\ mainPc = "run"
    /\ LET s == Steps(cfg)[step]
           o == Object(cfg, s.m)
       IN  CASE s.do = "apply" ->
                  \E res \in ApplyOutcomes :
                     /\ cluster' = IF res = "ok" THEN cluster \cup {o} ELSE cluster
                     /\ verbs' = IF res = "render" THEN ErrorReturn(verbs)
                                 ELSE IF res = "apply"
                                      THEN ErrorReturn(verbs \cup ApplyVerbs(o))
                                      ELSE verbs \cup ApplyVerbs(o)
                     /\ IF res = "ok" THEN StepDone ELSE StepFailed
             [] s.do \in {"waitPods", "getPodIPs"} ->
                  \E ok \in BOOLEAN :
                     /\ verbs' = IF ok THEN verbs \cup {<<"list", "Pod">>}
                                 ELSE ErrorReturn(verbs \cup {<<"list", "Pod">>})
                     /\ IF ok THEN StepDone ELSE StepFailed
                     /\ UNCHANGED cluster
             [] s.do = "waitJob" ->
                  \E ok \in BOOLEAN :
                     /\ verbs' = IF ok THEN verbs \cup {<<"get", "Job">>}
                                 ELSE ErrorReturn(verbs \cup {<<"get", "Job">>})
                     /\ IF ok THEN StepDone ELSE StepFailed
                     /\ UNCHANGED cluster
             [] s.do = "prometheus" ->
                  /\ createContextWithPrometheus
                  /\ StepDone
    /\ UNCHANGED <<cleaned, flags, classified, mgrVars, histVars, waitVars,
                   fioVars, rescanVars>>

InitTool ==
    /\ cfg \in FioConfigs \cup HammerDBConfigs
    /\ state = "Building"
    /\ podDetails = <<>>
    /\ pc = "off"
    /\ idx = 1
    /\ tick = 0
    /\ ret = Return("NewManager", "nil")
    /\ calls = 0
    /\ entryState = "Building"
    /\ trail = <<>>
    /\ applied = <<>>
    /\ maxRunning = -1
    /\ collected = -1
    /\ asleep = FALSE
    /\ cancelled = FALSE
    /\ waitLog = NoWait
    /\ cluster \in {{ForeignPod}, {ForeignPod, PrometheusService}}
    /\ verbs = {}
    /\ cleaned = NotCleaned
    /\ flags = NoFlags
    /\ mainPc = "exit"
    /\ step = 1
    /\ exit = "none"
    /\ classified = <<>>
    /\ FioIdle

NextTool == main \/ main_Cleanup \/ main_DryRun \/ main_Namespace \/ Workload_RunBenchmark

SpecTool == InitTool /\ [][NextTool]_vars

----------------------------------------------------------------------------
(* Cleanup of one run beside the resources of other runs in the namespace *)

MaxObjects == 2    \* resources in the namespace at a time

\* run identifiers (Config.UUID): two that share their first 8 characters and
\* one shorter than 8 characters
UUIDs == {"1a2b3c4d-0001", "1a2b3c4d-0002", "run7"}

\* Config.GetTruncatedUUID
GetTruncatedUUID(u) ==
    CASE u = "1a2b3c4d-0001" -> "1a2b3c4d"
      [] u = "1a2b3c4d-0002" -> "1a2b3c4d"
      [] OTHER               -> u

\* a resource of the run u: its kind, and its labels benchmark-uuid and app
\* ("" when the manifest carries no app label)
RunResource(u, kind, withApp) ==
    [run |-> u, kind |-> kind, uuidLabel |-> u,
     appLabel |-> IF withApp THEN GetTruncatedUUID(u) ELSE ""]

\* kinds a run creates: the first and the last that CleanupResources deletes,
\* and one it does not delete
RunKinds == {"Pod", "PersistentVolumeClaim", "Service"}

\* a label selector: benchmark-uuid=<value> or app=fio-benchmark-<value>
Selector(label, value) == [label |-> label, value |-> value]
Matches(o, sel) ==
    IF sel.label = "benchmark-uuid" THEN o.uuidLabel = sel.value
    ELSE o.appLabel = sel.value

\* CleanupResources with a selector: the objects left when the first done
\* DeleteCollection calls succeeded and the next one, if any, failed
CleanupSelected(objs, sel, done) ==
    {o \in objs : ~(Matches(o, sel) /\ \E k \in 1..done : CleanupKinds[k] = o.kind)}

\* the error Cleanup returns when its sweeps got as far as first and second
CleanupResult(first, second) ==
    IF first = Len(CleanupKinds) THEN "nil" ELSE "cleanup"

InitRuns ==
    /\ MgrIdle
    /\ FioIdle

\* a run applies a manifest of its own
Run_ApplyManifest ==
    /\ Cardinality(cluster) < MaxObjects
    /\ \E u \in UUIDs, kind \in RunKinds, withApp \in BOOLEAN :
         cluster' = cluster \cup {RunResource(u, kind, withApp)}
    /\ cleaned' = NotCleaned
    /\ ret' = Return("ApplyManifest", "nil")
    /\ UNCHANGED <<cfg, state, podDetails, pc, idx, tick, calls, histVars, waitVars,
                   verbs, flags, mainPc, step, exit, classified, fioVars, rescanVars>>

\* Manager.Cleanup / fio.Workload.Cleanup of the run u
Run_Cleanup ==
    /\ cluster # {}
    /\ \E u \in UUIDs, first \in 0..Len(CleanupKinds), second \in 0..Len(CleanupKinds) :
         \* the second sweep is made only after the first went through
         (first = Len(CleanupKinds) \/ second = 0) /\
         LET afterFirst == CleanupSelected(cluster, Selector("benchmark-uuid", u), first)
             ran == first = Len(CleanupKinds)
         IN  /\ cluster' = IF ran
                           THEN CleanupSelected(afterFirst,
                                                Selector("app", GetTruncatedUUID(u)), second)
                           ELSE afterFirst
             /\ ret' = Return("Cleanup", CleanupResult(first, second))
             /\ cleaned' = [by |-> u, removed |-> cluster \ cluster', first |-> first,
                            second |-> IF ran THEN second ELSE -1]
    /\ UNCHANGED <<cfg, state, podDetails, pc, idx, tick, calls, histVars, waitVars,
                   verbs, flags, mainPc, step, exit, classified, fioVars, rescanVars>>

NextRuns == Run_ApplyManifest \/ Run_Cleanup

SpecRuns == InitRuns /\ [][NextRuns]_vars

----------------------------------------------------------------------------
(* hammerdb.Workload.RunBenchmark with its job waits, one check at a time:  *)
(* trail keeps the manifests applied and the waits ended, in their order    *)

\* the configurations of a HammerDB run, with the labels written out
HammerDBRuns == {c \in HammerDBConfigs : c.FileLabels = RunLabels}

\* the job WaitForJobCompletion is given at step i: runDBInitialization
\* names the creation job, waitForCompletion the workload job
JobWaitedAt(c, i) ==
    IF c.DBInit /\ i <= Len(HammerDBSteps([c EXCEPT !.DBBenchmark = FALSE]))
    THEN "hammerdb-creator"
    ELSE "hammerdb-workload"

Applied(m) == [ev |-> "apply", name |-> m, outcome |-> "nil", job |-> NoJob]
Waited(name, outcome, job) ==
    [ev |-> "wait", name |-> name, outcome |-> outcome, job |-> job]

InitHammer ==
    /\ cfg \in HammerDBRuns
    /\ state = "Building"
    /\ podDetails = <<>>
    /\ pc = "off"
    /\ idx = 1
    /\ tick = 0
    /\ ret = Return("NewManager", "nil")
    /\ calls = 0
    /\ entryState = "Building"
    /\ trail = <<>>
    /\ applied = <<>>
    /\ maxRunning = -1
    /\ collected = -1
    /\ asleep = FALSE
    /\ cancelled = FALSE
    /\ waitLog = NoWait
    /\ cluster = {}
    /\ verbs = {}
    /\ cleaned = NotCleaned
    /\ flags = NoFlags
    /\ mainPc = "run"
    /\ step = 1
    /\ exit = "none"
    /\ classified = <<>>
    /\ FioIdle

\* the next step of RunBenchmark: the wait it starts, if it is one
EnterStep ==
    /\ tick' = FirstCheckAt
    /\ asleep' = FALSE
    /\ waitLog' = IF step' # step /\ HammerDBSteps(cfg)[step'].do = "waitJob"
                  THEN NewWait(JobWaitedAt(cfg, step'))
                  ELSE waitLog

\* render a manifest and ApplyManifest it: deployInfrastructure,
\* runDBInitialization lines 174-197, runBenchmark
HammerDB_ApplyManifest ==
    /\ mainPc = "run"
    /\ HammerDBSteps(cfg)[step].do = "apply"
    /\ \E res \in ApplyOutcomes :
         LET m == HammerDBSteps(cfg)[step].m
         IN  IF res = "ok"
             THEN /\ cluster' = cluster \cup {Object(cfg, m)}
                  /\ trail' = Append(trail, Applied(m[1]))
                  /\ StepDone
             ELSE /\ StepFailed
                  /\ UNCHANGED <<cluster, trail>>
    /\ EnterStep
    /\ UNCHANGED <<cfg, state, podDetails, pc, idx, ret, calls, entryState, applied,
                   maxRunning, collected, cancelled, verbs, cleaned, flags,
                   classified, fioVars, rescanVars>>

\* one check of WaitForJobCompletion: runDBInitialization lines 199-205,
\* waitForCompletion
HammerDB_WaitForJobCompletion ==
    /\ mainPc = "run"
    /\ HammerDBSteps(cfg)[step].do = "waitJob"
    /\ ~asleep
    /\ \E ans \in GetJobCall :
         \E o \in {PollOutcome(JobCompletionCheck(ans))} :
            CASE o = "ready"   -> /\ trail' = Append(trail, Waited(waitLog.kind, o, ans.job))
                                  /\ StepDone
                                  /\ EnterStep
              [] o = "pending" -> /\ asleep' = TRUE
                                  /\ waitLog' = Checked(ans.err, ans.job, o)
                                  /\ UNCHANGED <<trail, tick, mainPc, step, exit>>
              [] OTHER         -> /\ trail' = Append(trail, Waited(waitLog.kind, o, ans.job))
                                  /\ StepFailed
                                  /\ waitLog' = Checked(ans.err, ans.job, o)
                                  /\ UNCHANGED <<tick, asleep>>
    /\ UNCHANGED <<cfg, state, podDetails, pc, idx, ret, calls, entryState, applied,
                   maxRunning, collected, cancelled, cluster, verbs, cleaned, flags,
                   classified, fioVars, rescanVars>>

\* wait.PollImmediate: the interval between two checks elapses
HammerDB_PollInterval ==
    /\ mainPc = "run"
    /\ asleep
    /\ tick' = NextTick(tick, waitLog.checks)
    /\ asleep' = FALSE
    /\ UNCHANGED <<cfg, state, podDetails, pc, idx, ret, calls, histVars, cancelled,
                   waitLog, clusterVars, fioVars, rescanVars>>

NextHammer == HammerDB_ApplyManifest \/ HammerDB_WaitForJobCompletion
                 \/ HammerDB_PollInterval

SpecHammer == InitHammer /\ [][NextHammer]_vars

----------------------------------------------------------------------------
(* Claims about the summary functions, checked under SpecSummary *)

\* the worker stats of the payloads that are not the aggregate entry, in order
RECURSIVE KeepStats(_, _)
KeepStats(stats, i) ==
    IF i > Len(stats) THEN <<>>
    ELSE (IF stats[i].JobName = "All clients" THEN <<>> ELSE <<stats[i]>>)
           \o KeepStats(stats, i + 1)

RECURSIVE WorkerStats(_, _)
WorkerStats(res, k) ==
    IF k > Len(res) THEN <<>>
    ELSE KeepStats(res[k].ClientStats, 1) \o WorkerStats(res, k + 1)

RECURSIVE SumOver(_, _, _)
SumOver(seq, F(_), i) == IF i > Len(seq) THEN 0 ELSE F(seq[i]) + SumOver(seq, F, i + 1)

\* ExtractResultSummaries has returned; the table and the export, which leave
\* the rows as they are, have not run yet
Extracted == stage = "extracted"

ReadsDone(s)  == s.Read.TotalIOs > 0
WritesDone(s) == s.Write.TotalIOs > 0

\* C7 as stated: a worker stat with exactly one direction exercised gives one
\* row, a worker stat with both directions exercised gives two rows.
C7_OriginalRowCount ==
    LET stats == WorkerStats(results, 1)
        claimed(s) == IF ReadsDone(s) /\ WritesDone(s) THEN 2 ELSE 1
    IN  (Extracted /\ \A i \in DOMAIN stats : ReadsDone(stats[i]) \/ WritesDone(stats[i]))
          => Len(summaries) = SumOver(stats, claimed, 1)

\* C7 as amended: every non-aggregate worker stat gives exactly one row,
\* whatever its counts; the read fields of that row are filled in exactly
\* when reads were exercised and the write fields exactly when writes were,
\* both in the same row when both were.
C7_OneRowPerStat ==
    LET stats == WorkerStats(results, 1)
    IN  Extracted =>
          /\ Len(summaries) = Len(stats)
          /\ \A i \in DOMAIN stats :
               /\ summaries[i].ReadIOPS  = (IF ReadsDone(stats[i])  THEN stats[i].Read.IOPS  ELSE 0)
               /\ summaries[i].ReadBW    = (IF ReadsDone(stats[i])  THEN stats[i].Read.BW    ELSE 0)
               /\ summaries[i].WriteIOPS = (IF WritesDone(stats[i]) THEN stats[i].Write.IOPS ELSE 0)
               /\ summaries[i].WriteBW   = (IF WritesDone(stats[i]) THEN stats[i].Write.BW   ELSE 0)

C7_Witness ==
    /\ stage = "extracted"
    /\ results = <<FIOResult(<<MixedStat, ReadOnlyStat>>)>>
    /\ Len(summaries) = 2
    /\ summaries[1].ReadBW = 96 /\ summaries[1].WriteBW = 56

\* nanoseconds of a percentile entry, as microseconds times 1000
MicrosTimes1000(entry) == IF entry.t = "float64" THEN entry.v ELSE 0

\* C8: one decoded block whose only non-aggregate worker stat has reads and no
\* writes gives exactly one row; its write IOPS, bandwidth and P50/P95 latency
\* are zero whatever the payload's write section holds, its read IOPS,
\* bandwidth and latencies are those of the stat.
C8_ReadOnlyRow ==
    LET stats == WorkerStats(results, 1)
    IN  (Extracted /\ Len(results) = 1 /\ Len(stats) = 1
           /\ ReadsDone(stats[1]) /\ ~WritesDone(stats[1]))
          => /\ Len(summaries) = 1
             /\ summaries[1].WriteIOPS = 0 /\ summaries[1].WriteBW = 0
             /\ summaries[1].WriteLatP50 = 0 /\ summaries[1].WriteLatP95 = 0
             /\ summaries[1].ReadIOPS = stats[1].Read.IOPS
             /\ summaries[1].ReadBW = stats[1].Read.BW
             /\ summaries[1].ReadLatP50 * 1000 = MicrosTimes1000(stats[1].Read.P50)
             /\ summaries[1].ReadLatP95 * 1000 = MicrosTimes1000(stats[1].Read.P95)

C8_Witness ==
    /\ stage = "extracted"
    /\ results = <<FIOResult(<<AllClientsStat, ReadStaleWriteStat>>)>>
    /\ Len(summaries) = 1
    /\ summaries[1].ReadLatP50 = 1250 /\ summaries[1].WriteIOPS = 0

\* C9: no row is produced for the aggregate entry "All clients", wherever it
\* stands in a payload, and every other worker stat of the payloads still
\* gives its row, in order.
C9_NoAggregateRow ==
    LET stats == WorkerStats(results, 1)
    IN  Extracted =>
          /\ \A i \in DOMAIN summaries : summaries[i].JobName # "All clients"
          /\ [i \in DOMAIN summaries |-> <<summaries[i].JobName, summaries[i].Hostname>>]
               = [i \in DOMAIN stats |-> <<stats[i].JobName, stats[i].Hostname>>]

C9_Witness ==
    /\ stage = "extracted"
    /\ results = <<FIOResult(<<ReadOnlyStat, AllClientsStat>>),
                   FIOResult(<<AllClientsStat, WriteOnlyStat>>)>>
    /\ Len(summaries) = 2

\* C10: on an empty summary sequence the CSV export returns an error and
\* writes no file, while the table rendering prints the no-results notice
\* and nothing else, for the same input in the same run.
C10_EmptySummaries ==
    (stage = "exported" /\ summaries = <<>>)
      => /\ csv.err = "no results to export"
         /\ csv.file = <<>>
         /\ stdout = <<NoResultsNotice>>

C10_Witness ==
    /\ stage = "exported" /\ summaries = <<>>
    /\ results = <<FIOResult(<<AllClientsStat>>)>>
    /\ csv.err # "nil" /\ Len(stdout) = 1

----------------------------------------------------------------------------
(* Claims about the scanner, checked under SpecScan *)

\* number of rows a decoded block gives
RowCount(res) == Len(KeepStats(res.ClientStats, 1))

\* 1-based count of the decoded blocks up to b whose start line names the
\* test identifier of block b
OrdinalForOwnID(b) == Cardinality({j \in 1..b : blockIDs[j] = blockIDs[b]})

RECURSIVE SamplesClaimed(_)
SamplesClaimed(b) ==
    IF b > Len(results) THEN <<>>
    ELSE [i \in 1..RowCount(results[b]) |-> OrdinalForOwnID(b)] \o SamplesClaimed(b + 1)

\* C6: the sample number of each summary row is the 1-based count of the
\* decoded blocks seen so far for the test identifier on that block's own
\* start delimiter line.
C6_SamplePerTestID ==
    stage = "captured" =>
        [i \in DOMAIN summaries |-> summaries[i].Sample] = SamplesClaimed(1)

----------------------------------------------------------------------------
(* Claims about the Manager, checked under Spec *)

\* RunBenchmark has just returned to its caller
Returned == pc = "idle" /\ ret.op = "RunBenchmark"

\* C1: when a step of RunBenchmark ends with a fatal error, the phase is Failed
\* at the moment RunBenchmark returns that error.
C1_FailedOnError == (Returned /\ ret.err # "nil") => state = "Failed"

\* C2: once the phase is Completed or Failed, no later call changes it.
C2_TerminalPhase == [][(state \in {"Completed", "Failed"}) => (state' = state)]_vars

\* C3: inside one RunBenchmark invocation that started from Building, every
\* phase change goes to a strictly later phase of the declared order or to
\* Failed.
C3_Monotonic ==
    [][(entryState = "Building" /\ pc # "idle" /\ state' # state)
          => (Rank(state') > Rank(state) \/ state' = "Failed")]_vars

C3_Witness ==
    /\ Returned /\ entryState = "Building" /\ cfg.Prefill
    /\ trail = <<"StartingServers", "StartingClient", "Prefilling", "StartBenchmark",
                 "Running", "Completed">>

\* the invocation got as far as the readiness poll
ReachedPoll == "StartingServers" \in Range(trail)
EnteredStartingClient == "StartingClient" \in Range(trail)

C5_PhaseOrder ==
    /\ \A k \in DOMAIN trail : trail[k] = "Running" =>
          /\ \E i, j \in 1..(k-1) :
                i < j /\ trail[i] = "StartingServers" /\ trail[j] = "StartingClient"
          /\ cfg.Prefill =>
                \E p, q \in 1..(k-1) :
                    p < q /\ trail[p] = "Prefilling" /\ trail[q] = "StartBenchmark"
    /\ ~cfg.Prefill => (state # "Prefilling" /\ "Prefilling" \notin Range(trail))

C5_Witness == state = "Running" /\ pc = "completion" /\ cfg.Prefill /\ calls = 2

----------------------------------------------------------------------------
(* Claims about scanning a text twice, checked under SpecRescan *)

\* C11: scanning the same log text twice (ParseFIOResults, then
\* ExtractResultSummaries with the same test id) gives the same sequence of
\* summaries both times; nothing is carried over from the first scan.
C11_RescanSame ==
    (stage = "ready" /\ scanNo = MaxScans) => summaries = firstSummaries

\* a second scan has ended on a text that holds a decodable block and, after
\* it, a block that was started but not ended
C11_Witness ==
    /\ stage = "ready"
    /\ scanNo = MaxScans
    /\ Len(summaries) > 0
    /\ inJSONBlock


----------------------------------------------------------------------------
(* Claims about the waits, checked under Spec *)

WaitEnded == waitLog.outcome \in {"ready", "fatal", "jobFailed", "timeout"}

\* C12: a wait makes its first check at elapsed time 0 and then one check per
\* interval, with no growth of the interval: check number n is made after
\* n - 1 intervals, so a wait whose first k checks meet a transient error and
\* whose check k + 1 finds the condition met succeeds on check k + 1 after k
\* intervals, and a wait times out only after the check at the last interval
\* that fits into the timeout.
C12_FixedInterval ==
    /\ (pc \in WaitPositions /\ waitLog.checks = 0) => tick = 0
    /\ (pc \in WaitPositions /\ waitLog.outcome = "pending" /\ waitLog.checks > 0)
          => tick = (IF asleep THEN waitLog.checks - 1 ELSE waitLog.checks)
    /\ WaitEnded => tick = waitLog.checks - 1
    /\ \A k \in 0..MaxTicks :
          (waitLog.outcome = "ready" /\ waitLog.netErrs = k /\ waitLog.checks = k + 1)
             => tick = k
    /\ waitLog.outcome = "timeout" => waitLog.checks = MaxTicks + 1

\* the completion wait met a transient error on its first two checks and
\* succeeded on the third, two intervals after it began
C12_Witness ==
    /\ waitLog.kind = "completion"
    /\ waitLog.outcome = "ready"
    /\ waitLog.netErrs = 2
    /\ waitLog.checks = 3
    /\ tick = 2

\* C13: a transient error from listing the pods or getting the job never ends
\* a wait, however many occur in a row: after such a check the wait is still
\* polling, unless the timeout has run out; a wait ends only by the condition
\* being met, by a fatal error (a job failure included) or by the timeout.
C13_TransientNeverFails ==
    /\ (NetworkSymptom(waitLog.lastErr) /\ WaitEnded)
          => (waitLog.outcome = "timeout" /\ tick = MaxTicks)
    /\ (NetworkSymptom(waitLog.lastErr) /\ waitLog.outcome = "pending")
          => (pc \in WaitPositions /\ tick <= MaxTicks)
    /\ waitLog.outcome = "fatal" => ~NetworkSymptom(waitLog.lastErr)

\* every check of the pod wait met a transient error and the wait ended by
\* the timeout
C13_Witness ==
    /\ waitLog.kind = "pods"
    /\ waitLog.outcome = "timeout"
    /\ waitLog.checks = MaxTicks + 1
    /\ waitLog.netErrs = MaxTicks + 1

\* C14: when the context is cancelled while a wait is in progress, the wait
\* returns without waiting out the rest of the interval or of the timeout,
\* and its outcome is a cancellation, distinct from a fatal error, a job
\* failure and a timeout.
C14_CancelAborts ==
    (waitLog.cancelTick >= 0 /\ waitLog.outcome # "pending")
       => (waitLog.outcome = "cancelled" /\ tick = waitLog.cancelTick)

\* C15: whenever a check of the completion wait observes the measurement job
\* with a failed count > 0, whatever its succeeded and active counts, the
\* wait returns the job-failure error and the run does not reach Completed.
C15_FailedCountFails ==
    (waitLog.kind = "completion" /\ waitLog.checks > 0 /\ waitLog.lastErr = NoErr
       /\ waitLog.lastJob.Failed > 0)
       => (waitLog.outcome = "jobFailed" /\ state # "Completed")

\* number of times manifest m was applied in the current invocation
TimesApplied(m) == Cardinality({i \in DOMAIN applied : applied[i] = m})

\* C16: with prefill enabled, when the wait for the prefill job ends with the
\* job-failure error the run is aborted: RunBenchmark returns the error, the
\* prefill job manifest has been applied exactly once and the measurement
\* job manifest is not applied in that run.
C16_PrefillFailureAborts ==
    (waitLog.kind = "prefill" /\ waitLog.outcome = "jobFailed")
       => /\ pc = "idle"
          /\ (ret.op = "RunBenchmark" => ret.err = "jobFailed")
          /\ TimesApplied(<<"fio-prefill", 0>>) = 1
          /\ TimesApplied(<<"fio-client", 0>>) = 0
          /\ state = "Prefilling"

\* the prefill job was found failed on the second check of its wait
C16_Witness ==
    /\ cfg.Prefill
    /\ waitLog.kind = "prefill"
    /\ waitLog.outcome = "jobFailed"
    /\ waitLog.checks = 2
    /\ pc = "idle"

----------------------------------------------------------------------------
(* Claims about the command line tool, checked under SpecTool *)

BenchmarkRun == ~flags.cleanup /\ ~flags.dryRun
Exited == mainPc = "exit" /\ exit # "none"

\* C17: no delete call is issued on any path through RunBenchmark of the FIO
\* or of the HammerDB workload, whether it succeeds or fails at any of its
\* steps: delete calls are issued only by a process started with -cleanup.
C17_NoDeleteInRun ==
    /\ BenchmarkRun => \A v \in verbs : v[1] \notin DeleteVerbs
    /\ (\E v \in verbs : v[1] \in DeleteVerbs) => flags.cleanup

\* the HammerDB run created a job and then failed
C17_Witness ==
    /\ BenchmarkRun
    /\ Exited
    /\ exit = "fatal"
    /\ cfg.workload = "hammerdb"
    /\ <<"create", "Job">> \in verbs
    /\ step = Len(Steps(cfg))

C19_DryRunReadOnly ==
    (flags.dryRun /\ ~flags.cleanup) => \A v \in verbs : v[1] \notin WriteVerbs

\* C20: every FIO benchmark run that ends in success has retrieved the log of
\* the measurement job and passed it through parsing, the table and the CSV
\* export.
C20_ResultsCaptured ==
    (BenchmarkRun /\ Exited /\ exit = "ok" /\ cfg.workload = "fio")
       => /\ <<"get", "pods/log">> \in verbs
          /\ stage # "off"
          /\ csv # NotExported

----------------------------------------------------------------------------
(* Claims about blocks in a log, checked under SpecReader *)

StartAt(lines, i) == IsStartLine(TrimSpace(lines[i]))
EndAt(lines, j)   == IsEndLine(TrimSpace(lines[j]))

\* the start delimiter lines before line j that no end delimiter line follows
\* before line j
OpenStarts(lines, j) ==
    {i \in 1..(j - 1) : StartAt(lines, i) /\ \A k \in (i + 1)..(j - 1) : ~EndAt(lines, k)}

\* the end delimiter lines that close a start delimiter line
MatchedEnds(lines) == {j \in DOMAIN lines : EndAt(lines, j) /\ OpenStarts(lines, j) # {}}

Max(S) == CHOOSE x \in S : \A y \in S : y <= x

\* the lines between the last start delimiter line before line j and line j
Payload(lines, j) ==
    LET i == Max(OpenStarts(lines, j))
    IN  [k \in 1..(j - i - 1) |-> TrimSpace(lines[i + k])]

\* the end delimiter line j closes a block whose payload decodes
WellFormedAt(lines, j) ==
    /\ j \in MatchedEnds(lines)
    /\ Len(Payload(lines, j)) > 0
    /\ Unmarshal(Payload(lines, j)).ok

\* the payloads of the well-formed blocks of the first n lines, in their order
RECURSIVE WellFormedBlocks(_, _)
WellFormedBlocks(lines, n) ==
    IF n = 0 THEN <<>>
    ELSE WellFormedBlocks(lines, n - 1)
           \o (IF WellFormedAt(lines, n)
               THEN <<Unmarshal(Payload(lines, n)).result>> ELSE <<>>)

\* C21: a start delimiter line that no end delimiter line follows before the
\* input ends yields no block: the blocks are those of the lines before it,
\* and there are never more blocks than end delimiter lines that close a
\* start delimiter line.
C21_UnclosedDropped ==
    stage = "done" =>
       /\ Len(results) <= Cardinality(MatchedEnds(LinesRead))
       /\ \A i \in DOMAIN LinesRead :
             (StartAt(LinesRead, i) /\ \A k \in (i + 1)..Len(LinesRead) : ~EndAt(LinesRead, k))
                => results = ParseFIOResults(Join(SubSeq(LinesRead, 1, i - 1))).results

\* the stream ended inside a block whose payload decodes, after one block
\* that was closed
C21_Witness ==
    /\ stage = "done"
    /\ Len(results) = 1
    /\ inJSONBlock
    /\ Len(currentJSON) > 0
    /\ Unmarshal(currentJSON).ok

\* C22: a block whose payload does not decode is dropped and no error is
\* returned: the blocks returned are the well-formed blocks of the log, in
\* their order, and when there is one their summaries are printed and
\* exported.
C22_DecodeFailureDropped ==
    stage = "done" =>
       /\ results = WellFormedBlocks(LinesRead, Len(LinesRead))
       /\ ParseFIOResults(logText).err = "nil"
       /\ Len(results) > 0 =>
             /\ summaries = ExtractResultSummaries(results, callerID)
             /\ csv # NotExported
             /\ \E k \in DOMAIN stdout : stdout[k] \in {NoResultsNotice, OutLine("title", <<>>)}

\* the log held a block that did not decode and a well-formed one, whose
\* summaries were exported
C22_Witness ==
    /\ stage = "done"
    /\ ParseFIOResults(logText).warnings > 0
    /\ Len(results) > 0
    /\ Len(summaries) > 0
    /\ csv.err = "nil"

\* C23: at the end of the stream the blocks and the summaries of the last
\* pass of ParseFIOResultsFromReader are those ParseFIOResults and
\* ExtractResultSummaries give for the same lines as one buffered log, with a
\* newline at its end or without.
C23_StreamEqualsBuffered ==
    stage = "done" =>
       \A text \in {Join(LinesRead), Join(LinesRead) \o <<NL>>} :
          /\ results = ParseFIOResults(text).results
          /\ summaries = CaptureFIOResultsWithOptions(text, callerID, TRUE).summaries

\* the stream gave summaries at its end, after an earlier pass
C23_Witness ==
    /\ stage = "done"
    /\ scanNo >= 2
    /\ Len(summaries) > 0
    /\ ~ContainsEnd(line)

----------------------------------------------------------------------------
(* Claims about the classification of errors, checked under SpecClassify *)

\* the messages that, in lower case, hold one of the listed network symptoms
SymptomMessages ==
    {"client connection lost", "connection reset by peer", "timeout", "temporary failure",
     "network is unreachable", "no route to host", "connection refused", "i/o timeout",
     "dial tcp 10.0.0.1:6443: connect: connection refused",
     "http2: client connection lost",
     "read tcp: CONNECTION RESET BY PEER",
     "Connection Refused",
     "Timeout: request did not complete",
     "net/http: TLS handshake timeout",
     "Temporary failure in name resolution"}

\* C24: isTransientError answers true exactly for an error that is not nil
\* and whose message in lower case holds one of the listed network symptoms
\* or which is a net.Error; and the answer depends on the error alone.
C24_Classification ==
    /\ \A i \in DOMAIN classified :
          classified[i].transient
             <=> (classified[i].err # NoErr
                  /\ (classified[i].err.net \/ classified[i].err.msg \in SymptomMessages))
    /\ \A i, j \in DOMAIN classified :
          classified[i].err = classified[j].err
             => classified[i].transient = classified[j].transient

\* a message with the symptom in capital letters was classified transient,
\* then a cancelled context was classified fatal
C24_Witness ==
    /\ Len(classified) = 2
    /\ classified[1] = [err |-> [msg |-> "Connection Refused", net |-> FALSE],
                        transient |-> TRUE]
    /\ classified[2] = [err |-> [msg |-> "context canceled", net |-> FALSE],
                        transient |-> FALSE]

----------------------------------------------------------------------------
(* Claims about the end of the waits, checked under SpecLive *)

\* the phase in which a wait of this kind is made
PhaseOfWait(kind) ==
    CASE kind = "pods"    -> "StartingServers"
      [] kind = "prefill" -> "Prefilling"
      [] OTHER            -> "Running"

\* C25: every wait for readiness or completion ends; one that ends by timeout
\* does so when the timeout has elapsed and not before, and RunBenchmark then
\* has returned the error without entering a further phase.
C25_WaitsEnd ==
    /\ []<>(pc \notin WaitPositions)
    /\ [](waitLog.outcome = "pending" => ~TimedOut(tick) \/ ~asleep)
    /\ [](waitLog.outcome = "timeout"
            => /\ tick = MaxTicks
               /\ pc = "idle"
               /\ ret = Return("RunBenchmark", "timeout")
               /\ trail # <<>>
               /\ trail[Len(trail)] = PhaseOfWait(waitLog.kind))

\* a wait in which every check met a network error ended by timeout
C25_Witness ==
    /\ waitLog.outcome = "timeout"
    /\ waitLog.checks = MaxTicks + 1
    /\ waitLog.netErrs = waitLog.checks
    /\ ret = Return("RunBenchmark", "timeout")

----------------------------------------------------------------------------
(* Claims about the order of the applied manifests, checked under Spec *)

HostsManifest   == <<"fio-hosts", 0>>
PrefillJob      == <<"fio-prefill", 0>>
MeasurementJob  == <<"fio-client", 0>>

\* RunBenchmark returned because rendering or applying the hosts config failed
HostsApplyFailed ==
    /\ pc = "idle"
    /\ ret \in {Return("RunBenchmark", "render"), Return("RunBenchmark", "apply")}
    /\ trail # <<>>
    /\ trail[Len(trail)] = "StartingClient"

\* C26: in a run, a job manifest (prefill or measurement) is applied only
\* after the hosts config was applied, once, with the collected addresses in
\* place; and when applying the hosts config failed, the run has applied no
\* job manifest.
C26_HostsBeforeJobs ==
    /\ \A i \in DOMAIN applied :
          applied[i] \in {PrefillJob, MeasurementJob}
             => /\ \E j \in 1..(i - 1) : applied[j] = HostsManifest
                /\ Cardinality(DOMAIN podDetails) = collected
    /\ TimesApplied(HostsManifest) <= 1
    /\ HostsApplyFailed
          => /\ TimesApplied(HostsManifest) = 0
             /\ TimesApplied(PrefillJob) = 0
             /\ TimesApplied(MeasurementJob) = 0

\* hosts config, prefill job and measurement job were applied in a run
C26_Witness ==
    /\ TimesApplied(PrefillJob) = 1
    /\ TimesApplied(MeasurementJob) = 1
    /\ \E i, j, k \in DOMAIN applied :
          /\ i < j /\ j < k
          /\ applied[i] = HostsManifest
          /\ applied[j] = PrefillJob
          /\ applied[k] = MeasurementJob

\* the place of a manifest in the order of deployment: shared config, prefill
\* config, volume claims by number, workers by number
DeployRank(m) ==
    CASE m[1] = "fio-configmap"         -> 0
      [] m[1] = "fio-prefill-configmap" -> 1
      [] m[1] = "pvc"                   -> 1 + m[2]
      [] m[1] = "server"                -> 1 + MaxServers + m[2]
      [] OTHER                          -> 2 + 2 * MaxServers

\* the manifests the configuration asks deployInfrastructure for
DeployWanted ==
    {<<"fio-configmap", 0>>}
    \cup (IF cfg.Prefill THEN {<<"fio-prefill-configmap", 0>>} ELSE {})
    \cup (IF cfg.StorageClass THEN {<<"pvc", i>> : i \in 1..cfg.Servers} ELSE {})
    \cup {<<"server", i>> : i \in 1..cfg.Servers}

DeployKinds == {"fio-configmap", "fio-prefill-configmap", "pvc", "server"}

\* C27: the manifests of deployInfrastructure are applied in one order (shared
\* config, prefill config when enabled, volume claims 1..N when a storage
\* class is set, workers 1..N), each at most once and with none left out
\* before a later one; StartingServers is entered only when all were applied.
C27_DeployOrder ==
    /\ \A i, j \in DOMAIN applied :
          i < j => DeployRank(applied[i]) < DeployRank(applied[j])
                   \/ applied[j][1] \notin DeployKinds
    /\ \A i \in DOMAIN applied :
          applied[i][1] \in DeployKinds
             => /\ applied[i] \in DeployWanted
                /\ \A m \in DeployWanted :
                      DeployRank(m) < DeployRank(applied[i]) => m \in Range(applied)
    /\ "StartingServers" \in Range(trail) => DeployWanted \subseteq Range(applied)
    /\ pc = "deploy" => trail = <<>>

\* StartingServers was entered after two volume claims and two workers, with
\* prefill enabled
C27_Witness ==
    /\ trail = <<"StartingServers">>
    /\ pc = "waitServers"
    /\ applied = << <<"fio-configmap", 0>>, <<"fio-prefill-configmap", 0>>,
                    <<"pvc", 1>>, <<"pvc", 2>>, <<"server", 1>>, <<"server", 2>> >>

\* the errors of cluster calls made outside the retry loop of a wait:
\* ApplyManifest and the pod listing of GetPodIPs
CallErrors == {"apply", "listPods"}

\* C28: when a cluster call outside a wait fails, the run ends with that step:
\* it applies nothing more and enters no further phase; manifests are applied
\* again only by a new invocation.
C28_NoCallAfterFailure ==
    [][ /\ (ret.err = "running" /\ ret'.err \in CallErrors)
            => /\ pc' = "idle"
               /\ applied' = applied
               /\ trail' = trail
               /\ state' = state
        /\ (ret.op = "RunBenchmark" /\ ret.err \in CallErrors)
            => /\ pc = "idle"
               /\ applied' \in {applied, <<>>}
               /\ trail' \in {trail, <<>>}
               /\ state' = state ]_vars

\* applying the second of two workers failed: the run is over with one worker
\* applied and no phase entered
C28_Witness ==
    /\ pc = "idle"
    /\ ret = Return("RunBenchmark", "apply")
    /\ cfg.Servers = 2
    /\ applied = << <<"fio-configmap", 0>>, <<"server", 1>> >>
    /\ trail = <<>>

\* C29: in StartingClient and every later phase but Failed the Manager holds
\* as many distinct worker addresses as servers are configured; the addresses
\* are written only by waitForServers after a successful readiness wait, all
\* or none, stay as they were when the collected count differs (the step
\* fails), and no other step changes them.
C29_EndpointsFixed ==
    /\ []((Rank(state) >= Rank("StartingClient") /\ state # "Failed")
            => Cardinality(DOMAIN podDetails) = cfg.Servers)
    /\ [][ /\ podDetails' # podDetails
                => /\ pc = "getPodIPs"
                   /\ waitLog.outcome = "ready"
                   /\ pc' = "hosts"
           /\ (pc = "getPodIPs" /\ pc' = "hosts")
                => /\ collected' = cfg.Servers
                   /\ Cardinality(DOMAIN podDetails') = collected'
                   /\ trail' = <<"StartingServers", "StartingClient">>
           /\ (pc = "getPodIPs" /\ pc' # "hosts")
                => /\ podDetails' = podDetails
                   /\ state' = state
                   /\ pc' = "idle"
                   /\ ret'.err \in {"listPods", "podCount"}
           /\ (pc = "getPodIPs" /\ collected' \notin {-1, cfg.Servers})
                => ret' = Return("RunBenchmark", "podCount") ]_vars

\* a second run on a Manager that holds two addresses collected one address
\* for two servers: the step failed and the addresses are those of the first
C29_Witness ==
    /\ calls = 2
    /\ cfg.Servers = 2
    /\ collected = 1
    /\ ret = Return("RunBenchmark", "podCount")
    /\ Cardinality(DOMAIN podDetails) = 2

----------------------------------------------------------------------------
(* Claim about the lines kept while capturing, checked under SpecScan *)

\* C30: while a block is being captured, a line that is not an end line is
\* appended to the buffer as it was read, white space included, and a start
\* line is appended like any other line: the buffer is not emptied and the
\* recorded test id stays.
C30_AppendedVerbatim ==
    [][ (stage = "scan" /\ inJSONBlock /\ pos' = pos + 1 /\ ~IsEndLine(TrimSpace(line')))
           => /\ currentJSON' = Append(currentJSON, line')
              /\ testID' = testID
              /\ inJSONBlock' ]_vars

\* C31: a block is finalized only by an end line that names the test id of
\* the start line that opened it; after every end line the scanner is outside
\* a block with an empty buffer; an end line met outside a block gives no block.
C31_EndMatchesStart ==
    [][ (stage = "scan" /\ pos' = pos + 1)
           => /\ Len(results') > Len(results)
                   => /\ IsEndLine(TrimSpace(line'))
                      /\ inJSONBlock
                      /\ line'.id = testID
              /\ IsEndLine(TrimSpace(line'))
                   => /\ ~inJSONBlock'
                      /\ currentJSON' = <<>>
              /\ (IsEndLine(TrimSpace(line')) /\ ~inJSONBlock)
                   => results' = results ]_vars

----------------------------------------------------------------------------
(* Further claims about the summary functions, checked under SpecSummary *)

\* the rows that carry sample number k
RowsOfSample(k) == {i \in DOMAIN summaries : summaries[i].Sample = k}

\* C32: the rows stand in the order of the blocks and, inside a block, in the
\* order of its worker stats; equal stats give equal rows, one each: nothing
\* is reordered, merged or dropped as a duplicate.
C32_RowsInScanOrder ==
    LET stats == WorkerStats(results, 1)
    IN  Extracted =>
          /\ Len(summaries) = Len(stats)
          /\ \A i \in DOMAIN stats :
               /\ summaries[i].JobName = stats[i].JobName
               /\ summaries[i].Hostname = stats[i].Hostname
               /\ summaries[i].ReadBW = (IF ReadsDone(stats[i]) THEN stats[i].Read.BW ELSE 0)
               /\ summaries[i].WriteBW = (IF WritesDone(stats[i]) THEN stats[i].Write.BW ELSE 0)
          /\ \A i, j \in DOMAIN summaries :
               i < j => summaries[i].Sample <= summaries[j].Sample
          /\ \A k \in DOMAIN results :
               Cardinality(RowsOfSample(k)) = RowCount(results[k])

\* two blocks, the second with the same worker stat twice: four rows, the
\* last two equal
C32_Witness ==
    /\ stage = "extracted"
    /\ results = <<FIOResult(<<WriteOnlyStat, ReadOnlyStat>>),
                   FIOResult(<<ReadOnlyStat, ReadOnlyStat>>)>>
    /\ Len(summaries) = 4
    /\ summaries[3] = summaries[4]
    /\ summaries[1].JobName = WriteOnlyStat.JobName
    /\ summaries[2].Sample = 1 /\ summaries[3].Sample = 2

\* the latency fields of a row agree with the percentile entries of a direction
LatenciesFrom(p50, p95, io) ==
    /\ p50 = MicrosTimes1000(io.P50) \div 1000
    /\ p95 = MicrosTimes1000(io.P95) \div 1000

\* C33: the runtime of a row is the job runtime in milliseconds divided by
\* 1000, the fraction cut off; each latency of an exercised direction is the
\* percentile in nanoseconds divided by 1000, and 0 when the entry is missing
\* or not a number, with the IOPS and bandwidth of the direction filled in.
C33_UnitConversion ==
    LET stats == WorkerStats(results, 1)
    IN  Extracted =>
          \A i \in DOMAIN stats :
            /\ i \in DOMAIN summaries
            /\ summaries[i].Runtime * 1000 <= stats[i].JobRuntime
            /\ stats[i].JobRuntime < (summaries[i].Runtime + 1) * 1000
            /\ ReadsDone(stats[i])
                 => /\ LatenciesFrom(summaries[i].ReadLatP50, summaries[i].ReadLatP95,
                                     stats[i].Read)
                    /\ summaries[i].ReadIOPS = stats[i].Read.IOPS
                    /\ summaries[i].ReadBW = stats[i].Read.BW
            /\ WritesDone(stats[i])
                 => /\ LatenciesFrom(summaries[i].WriteLatP50, summaries[i].WriteLatP95,
                                     stats[i].Write)
                    /\ summaries[i].WriteIOPS = stats[i].Write.IOPS
                    /\ summaries[i].WriteBW = stats[i].Write.BW

\* a stat without usable read percentiles and a stat that ran 1999 ms
C33_Witness ==
    /\ stage = "extracted"
    /\ results = <<FIOResult(<<ReadNoPercentileStat, MixedStat>>)>>
    /\ summaries[1].ReadLatP50 = 0 /\ summaries[1].ReadLatP95 = 0
    /\ summaries[1].ReadIOPS = ReadNoPercentileStat.Read.IOPS
    /\ summaries[1].ReadIOPS > 0
    /\ summaries[2].Runtime = 1
    /\ summaries[2].ReadLatP50 * 1000 = MixedStat.Read.P50.v
    /\ summaries[2].ReadLatP50 > 0

----------------------------------------------------------------------------
(* Further claims about the waits and the run, checked under Spec *)

\* C34: a check of a wait that meets an error which is not transient ends the
\* wait with that check: the error is returned at the same elapsed time, no
\* further check is made and the rest of the timeout is not waited out.
C34_FatalEndsAtOnce ==
    /\ [][ (pc \in WaitPositions /\ waitLog'.checks = waitLog.checks + 1
              /\ waitLog'.lastErr # NoErr /\ ~NetworkSymptom(waitLog'.lastErr))
             => /\ waitLog'.outcome = "fatal"
                /\ pc' = "idle"
                /\ ret' = Return("RunBenchmark", "fatal")
                /\ tick' = tick
                /\ asleep' = asleep ]_vars
    /\ [][ waitLog.outcome = "fatal"
             => /\ pc = "idle"
                /\ waitLog' \in {waitLog, NoWait} ]_vars

\* the second check of the prefill wait was refused by the API server with
\* time left before the timeout
C34_Witness ==
    /\ waitLog.kind = "prefill"
    /\ waitLog.outcome = "fatal"
    /\ waitLog.lastErr = [msg |-> "forbidden", net |-> FALSE]
    /\ waitLog.checks = 2
    /\ tick < MaxTicks
    /\ pc = "idle"

----------------------------------------------------------------------------
(* Claim about ApplyManifest, checked under SpecApply *)

\* the store after the i-th call
StoreAfter(i) == IF i = Len(applied) THEN cluster ELSE applied[i + 1].before

\* the stored objects that have the kind and name of manifest m
Named(store, m) == {o \in store : o.kind = m.kind /\ o.name = m.name}

\* the namespace a manifest belongs to: its own, or else the one given
WantedNamespace(a) == IF a.manifest.ns # "" THEN a.manifest.ns ELSE a.namespace

\* C35: when no call to the API server fails for a reason of its own,
\* ApplyManifest creates the object if its name is free and updates it in
\* place if not, and succeeds; the same manifest applied twice in a row
\* succeeds twice and leaves one object of that name in the manifest's
\* namespace, or else the given one, with the manifest's content, and every
\* other object as it was.
C35_CreateOrReplace ==
    /\ \A i \in DOMAIN applied :
          LET a == applied[i]
              mine(store) == {o \in Named(store, a.manifest) : o.ns = WantedNamespace(a)}
          IN  (a.fault = "none" /\ a.manifest # Undecodable)
                => /\ a.err = "nil"
                   /\ a.calls = (IF mine(a.before) = {} THEN <<"get", "create">>
                                                        ELSE <<"get", "update">>)
                   /\ Cardinality(mine(StoreAfter(i))) = 1
                   /\ \A o \in mine(StoreAfter(i)) : o.content = a.manifest.content
                   /\ StoreAfter(i) \ mine(StoreAfter(i)) = a.before \ mine(a.before)
    /\ \A i \in DOMAIN applied :
          (i > 1 /\ applied[i].fault = "none" /\ applied[i - 1].fault = "none"
             /\ applied[i].manifest = applied[i - 1].manifest
             /\ applied[i].manifest # Undecodable
             /\ applied[i].namespace = applied[i - 1].namespace)
            => /\ applied[i - 1].err = "nil" /\ applied[i].err = "nil"
               /\ applied[i].calls = <<"get", "update">>
               /\ Cardinality(StoreAfter(i)) = Cardinality(StoreAfter(i - 1))

\* a manifest without namespace was applied twice in a row with a namespace
\* given: created, then updated, one object in the given namespace
C35_Witness ==
    /\ Len(applied) = 2
    /\ applied[1] = [applied[2] EXCEPT !.before = {}, !.calls = <<"get", "create">>]
    /\ applied[2].manifest = [kind |-> "Job", ns |-> "", name |-> "fio", content |-> "v1"]
    /\ applied[2].namespace = "default"
    /\ applied[2].fault = "none"
    /\ applied[2].calls = <<"get", "update">>
    /\ Cardinality(cluster) = 1
    /\ \A o \in cluster : o.ns = "default" /\ o.content = "v1"

\* the last check of the wait that just ended saw the job succeeded
SawJobSucceeded(log) ==
    /\ log.outcome = "ready"
    /\ log.lastErr = NoErr
    /\ log.lastJob.Succeeded > 0

\* C36: the phase becomes Completed only in a run whose readiness poll saw
\* at least the configured number of running servers, whose prefill job, when
\* prefill is enabled, was seen with a succeeded count > 0 before the
\* measurement job was applied, and whose measurement job was applied and then
\* seen with a succeeded count > 0.
C36_CompletedIsEarned ==
    /\ [][ (state' = "Completed" /\ state # "Completed")
             => /\ pc = "completion"
                /\ SawJobSucceeded(waitLog') /\ waitLog'.kind = "completion"
                /\ TimesApplied(MeasurementJob) = 1
                /\ maxRunning >= cfg.Servers
                /\ cfg.Prefill
                     => \E i, j \in DOMAIN applied :
                          /\ i < j
                          /\ applied[i] = PrefillJob
                          /\ applied[j] = MeasurementJob ]_vars
    /\ [][ (pc = "prefillWait" /\ pc' # "prefillWait")
             => IF SawJobSucceeded(waitLog') /\ waitLog'.kind = "prefill"
                THEN pc' = "client"
                ELSE pc' = "idle" /\ ret'.err # "nil" ]_vars
    /\ [][ (pc' = "clientApply" /\ pc # "clientApply")
             => /\ pc = "client"
                /\ maxRunning >= cfg.Servers
                /\ collected = cfg.Servers ]_vars
    /\ [][ (pc' = "client" /\ pc # "client")
             => IF cfg.Prefill THEN pc = "prefillWait" ELSE pc = "hosts" ]_vars

\* a run with prefill has just completed: the measurement job was seen
\* succeeded on the second check of its wait
C36_Witness ==
    /\ Returned /\ ret.err = "nil"
    /\ state = "Completed"
    /\ cfg.Prefill
    /\ cfg.Servers = 2 /\ maxRunning = 2
    /\ waitLog.kind = "completion" /\ waitLog.checks = 2
    /\ waitLog.lastJob.Succeeded > 0

----------------------------------------------------------------------------
(* Claims about Cleanup among several runs, checked under SpecRuns *)

\* C37: Cleanup of a run deletes resources of that run only: none that
\* belongs to a run with another identifier, also when the two identifiers
\* begin with the same 8 characters.
C37_OwnResourcesOnly ==
    cleaned # NotCleaned => \A o \in cleaned.removed : o.run = cleaned.by

\* C40: Cleanup returns nil only when every deletion of both sweeps went
\* through, the one by benchmark-uuid and the one by app; a deletion that
\* failed in either sweep gives an error to the caller.
C40_CleanupReportsFailure ==
    cleaned # NotCleaned
      => (ret = Return("Cleanup", "nil")
            <=> (cleaned.first = Len(CleanupKinds) /\ cleaned.second = Len(CleanupKinds)))

----------------------------------------------------------------------------
(* Claims about the HammerDB run, checked under SpecHammer *)

CreatorJob  == "hammerdb-creator"
WorkloadJob == "hammerdb-workload"

AppliedAt(i, name) == trail[i].ev = "apply" /\ trail[i].name = name
WaitEndedAt(i, name) == trail[i].ev = "wait" /\ trail[i].name = name

\* C38: in the HammerDB workload, with db_init enabled the workload job is
\* applied only after a wait on the database-creation job has ended on a job
\* whose succeeded count is above zero; after a wait on the creation job
\* that ended with a failure or a timeout the workload job is not applied;
\* and with db_benchmark disabled the workload job is neither applied nor
\* waited on.
C38_WorkloadAfterCreation ==
    /\ cfg.DBInit =>
         \A i \in DOMAIN trail :
            AppliedAt(i, WorkloadJob) =>
               \E j \in 1..(i - 1) : /\ WaitEndedAt(j, CreatorJob)
                                     /\ trail[j].outcome = "ready"
                                     /\ trail[j].job.Succeeded > 0
    /\ \A j \in DOMAIN trail :
          WaitEndedAt(j, CreatorJob) /\ trail[j].outcome # "ready" =>
             /\ \A i \in DOMAIN trail : ~AppliedAt(i, WorkloadJob)
             /\ mainPc = "exit"
    /\ ~cfg.DBBenchmark =>
          /\ \A i \in DOMAIN trail : trail[i].name # WorkloadJob
          /\ waitLog.kind # WorkloadJob

\* the creation job succeeded and the workload job was applied after it, in
\* a run with db_init and db_benchmark enabled
C38_Witness ==
    /\ cfg.DBInit /\ cfg.DBBenchmark
    /\ \E i, j \in DOMAIN trail :
          /\ j < i
          /\ WaitEndedAt(j, CreatorJob)
          /\ trail[j].job.Succeeded > 0
          /\ AppliedAt(i, WorkloadJob)

----------------------------------------------------------------------------
(* Claims about the passes of the streaming reader, checked under SpecReader *)

\* the lines read so far that hold the end delimiter
EndLinesRead == {j \in DOMAIN LinesRead : ContainsEnd(LinesRead[j])}

\* C39: in streaming mode every pass parses the whole log accumulated so
\* far: the pass after the i-th line that holds the end delimiter is the
\* i-th pass and gives the decodable blocks completed up to that line, the
\* number of blocks never decreases from one pass to the next, and once the
\* stream has ended one more pass has given the blocks of the full log if at
\* least one line was read, and no pass was made if none was.
C39_PassesReparseWholeLog ==
    /\ [](stage = "stream" =>
             /\ scanNo = Cardinality(EndLinesRead)
             /\ EndLinesRead # {} =>
                   results = WellFormedBlocks(LinesRead, Max(EndLinesRead)))
    /\ [](stage = "done" =>
             /\ scanNo = Cardinality(EndLinesRead) + (IF Len(LinesRead) > 0 THEN 1 ELSE 0)
             /\ Len(LinesRead) > 0 =>
                   results = WellFormedBlocks(LinesRead, Len(LinesRead)))
    /\ [][Len(results') >= Len(results)]_vars

\* the third pass, at the end of the stream, gave the two blocks the first
\* two passes had given one after the other
C39_Witness ==
    /\ stage = "done"
    /\ scanNo = 3
    /\ Cardinality(EndLinesRead) = 2
    /\ Len(results) = 2

====
